---------------------------- MODULE Spec2Model ----------------------------
(***************************************************************************)
(* Company classification pipeline of the job categorizer:                *)
(*   src/company_categorizer.py  CompanyCategorizer                       *)
(*   src/job_categorizer.py      categorize_jobs                          *)
(* Company names, labels and response bodies are strings; the normalizer  *)
(* and the rule matcher are computed character by character as the        *)
(* regular expressions of the source compute them.                        *)
(***************************************************************************)
EXTENDS Integers, Sequences, FiniteSets, TLC

---------------------------------------------------------------------------
(* Bounds of the model                                                     *)

\* longest file of job records in the single-batch specification
MaxBatch == 3
\* records beyond one full batch in the multi-batch specification
MaxTail == 1
\* depth at which the interpreter refuses a further recursive call
RecursionLimit == 3
\* words in a company name the normalizer is called on
MaxWords == 3
\* topic words in a company name the rule matcher is called on
MaxTopicWords == 2
\* records in a sequence handed to the exporter
MaxRows == 2
\* jobs on one page of search results
MaxPageJobs == 1
\* files uploaded to the resume page at once
MaxFiles == 2

---------------------------------------------------------------------------
(* Strings                                                                 *)

Ch(s, k) == SubSeq(s, k, k)

Min(S) == CHOOSE x \in S : \A y \in S : x <= y
Max(S) == CHOOSE x \in S : \A y \in S : x >= y

UpperCase == <<"A","B","C","D","E","F","G","H","I","J","K","L","M",
               "N","O","P","Q","R","S","T","U","V","W","X","Y","Z">>
LowerCase == <<"a","b","c","d","e","f","g","h","i","j","k","l","m",
               "n","o","p","q","r","s","t","u","v","w","x","y","z">>
Digits == {"0","1","2","3","4","5","6","7","8","9"}

\* \s of the regular expressions, and the characters str.strip() removes
Whitespace == {" ", "\t", "\n"}
\* \w of the regular expressions
WordChars == {UpperCase[k] : k \in 1..26} \cup {LowerCase[k] : k \in 1..26}
                \cup Digits \cup {"_"}

IsSpace(c) == c \in Whitespace
IsWord(c) == c \in WordChars

lower_char(c) ==
    IF \E k \in 1..26 : UpperCase[k] = c
    THEN LowerCase[CHOOSE k \in 1..26 : UpperCase[k] = c]
    ELSE c

\* str.lower()
RECURSIVE lower(_)
lower(s) == IF s = "" THEN "" ELSE lower_char(Head(s)) \o lower(Tail(s))

\* str.strip()
strip(s) ==
    LET keep == {k \in 1..Len(s) : ~IsSpace(Ch(s, k))}
    IN  IF keep = {} THEN "" ELSE SubSeq(s, Min(keep), Max(keep))

\* re.sub(r'\s+', ' ', s)
RECURSIVE collapse_from(_, _)
collapse_from(s, k) ==
    IF k > Len(s) THEN ""
    ELSE IF IsSpace(Ch(s, k))
         THEN (IF k > 1 /\ IsSpace(Ch(s, k - 1)) THEN "" ELSE " ")
                 \o collapse_from(s, k + 1)
         ELSE Ch(s, k) \o collapse_from(s, k + 1)

collapse_spaces(s) == collapse_from(s, 1)

\* re.sub(r'[^\w\s&-]', '', s)
RECURSIVE remove_punctuation(_)
remove_punctuation(s) ==
    IF s = "" THEN ""
    ELSE (IF IsWord(Head(s)) \/ IsSpace(Head(s)) \/ Head(s) \in {"&", "-"}
          THEN Head(s) ELSE "") \o remove_punctuation(Tail(s))

\* \b between s[k-1] and s[k]
WordAt(s, k) == k >= 1 /\ k <= Len(s) /\ IsWord(Ch(s, k))
Boundary(s, k) == WordAt(s, k - 1) # WordAt(s, k)

\* the literal lit occurs in s starting at position k
LitAt(s, lit, k) == k >= 1 /\ k + Len(lit) - 1 <= Len(s)
                      /\ SubSeq(s, k, k + Len(lit) - 1) = lit

---------------------------------------------------------------------------
(* Python values: the cells of an imported spreadsheet are text or, for an *)
(* empty cell, the float NaN; None is the rule matcher's "no match".       *)

Str(s) == [type |-> "str", v |-> s]
NaN == [type |-> "float", v |-> "nan"]
None == [type |-> "NoneType", v |-> ""]
\* an exception leaving a function, in place of its return value
Raised(e) == [type |-> "raise", v |-> e]

IsStr(x) == x.type = "str"
IsRaised(x) == x.type = "raise"
\* bool(x): the empty string, the empty list and None are false, NaN is true
Truthy(x) == CASE x.type = "str" -> x.v # ""
               [] x.type = "NoneType" -> FALSE
               [] x.type = "list" -> x.v # <<>>
               [] OTHER -> TRUE
\* x == 'N/A'
IsNA(x) == x = Str("N/A")

---------------------------------------------------------------------------
(* Name normalizer                                                         *)

\* the alternatives of suffixes_pattern, in order; the words of one
\* alternative are separated by \s+
Suffixes == << <<"pty", "ltd">>, <<"pte", "ltd">>, <<"sdn", "bhd">>,
               <<"ltd">>, <<"limited">>, <<"inc">>, <<"incorporated">>,
               <<"llc">>, <<"plc">>, <<"corp">>, <<"corporation">>,
               <<"company">>, <<"co">>, <<"gmbh">>, <<"sa">>, <<"srl">>,
               <<"group">>, <<"holdings">>, <<"services">>, <<"solutions">>,
               <<"international">>, <<"global">>, <<"australia">>,
               <<"aust">> >>

\* alternative alt matches s from position k to the end of s
SuffixAt(s, alt, k) ==
    IF Len(alt) = 1
    THEN SubSeq(s, k, Len(s)) = alt[1]
    ELSE LET gapFrom == k + Len(alt[1])
             gapTo == Len(s) - Len(alt[2])
         IN  /\ LitAt(s, alt[1], k)
             /\ gapFrom <= gapTo
             /\ \A j \in gapFrom..gapTo : IsSpace(Ch(s, j))
             /\ LitAt(s, alt[2], gapTo + 1)

\* re.sub(r'\b(...)\b$', '', s, flags=re.IGNORECASE): the leftmost match
strip_suffix(s) ==
    LET low == lower(s)
        starts == {k \in 1..Len(s) :
                     /\ Boundary(s, k)
                     /\ \E a \in 1..Len(Suffixes) : SuffixAt(low, Suffixes[a], k)
                     /\ Boundary(s, Len(s) + 1)}
    IN  IF starts = {} THEN s ELSE SubSeq(s, 1, Min(starts) - 1)

RECURSIVE skip_spaces(_, _)
skip_spaces(s, k) ==
    IF k <= Len(s) /\ IsSpace(Ch(s, k)) THEN skip_spaces(s, k + 1) ELSE k

\* re.sub(r'\b(the\s+)', '', s, flags=re.IGNORECASE): every match
RECURSIVE remove_the_from(_, _)
remove_the_from(s, k) ==
    IF k > Len(s) THEN ""
    ELSE IF /\ Boundary(s, k)
            /\ k + 3 <= Len(s)
            /\ lower(SubSeq(s, k, k + 2)) = "the"
            /\ IsSpace(Ch(s, k + 3))
         THEN remove_the_from(s, skip_spaces(s, k + 3))
         ELSE Ch(s, k) \o remove_the_from(s, k + 1)

remove_the(s) == remove_the_from(s, 1)

\* the steps of normalize_company_name on a text
normalize_text(s) ==
    strip(collapse_spaces(remove_the(strip_suffix(
        remove_punctuation(collapse_spaces(strip(lower(s))))))))

normalize_company_name(company_name) ==
    IF ~Truthy(company_name) \/ IsNA(company_name) THEN company_name
    ELSE IF ~IsStr(company_name)
         THEN Raised("AttributeError")       \* float has no lower()
         ELSE Str(normalize_text(company_name.v))

---------------------------------------------------------------------------
(* Rule matcher                                                            *)

\* re.search of a pattern given as its literal parts, joined by ".*"
\* ("." matches any character but a newline)
PatternMatches(parts, name) ==
    IF Len(parts) = 1
    THEN \E k \in 1..Len(name) : LitAt(name, parts[1], k)
    ELSE \E k \in 1..Len(name) : \E j \in 1..Len(name) :
            /\ LitAt(name, parts[1], k)
            /\ j >= k + Len(parts[1])
            /\ LitAt(name, parts[2], j)
            /\ \A g \in (k + Len(parts[1]))..(j - 1) : Ch(name, g) # "\n"

\* the pattern lists of categorize_with_regex, in the order it checks them
Topics == <<
  [label |-> "Recruitment & Staffing",
   patterns |-> << <<"recruit">>, <<"people">>, <<"talent">>, <<"staffing">>,
                   <<"personnel">>, <<"executive">>, <<"placement">>,
                   <<"workforce">>, <<"consulting", "hr">>,
                   <<"human", "resources">>, <<"hr", "solutions">>,
                   <<"employment">> >>],
  [label |-> "Healthcare Services",
   patterns |-> << <<"health">>, <<"medical">>, <<"hospital">>, <<"clinic">>,
                   <<"pharma">>, <<"dental">>, <<"care">>, <<"wellness">>,
                   <<"therapy">> >>],
  [label |-> "Financial Services",
   patterns |-> << <<"bank">>, <<"finance">>, <<"insurance">>,
                   <<"investment">>, <<"capital">>, <<"credit">>, <<"loan">>,
                   <<"wealth">>, <<"fund">>, <<"financial">> >>],
  [label |-> "Education & Training",
   patterns |-> << <<"school">>, <<"university">>, <<"college">>,
                   <<"education">>, <<"training">>, <<"learning">>,
                   <<"academy">>, <<"institute">> >>],
  [label |-> "Construction & Engineering",
   patterns |-> << <<"construction">>, <<"building">>, <<"contractor">>,
                   <<"engineering">>, <<"architect">>, <<"property">>,
                   <<"real", "estate">>, <<"development">> >>],
  [label |-> "Retail & E-commerce",
   patterns |-> << <<"retail">>, <<"shop">>, <<"store">>, <<"market">>,
                   <<"sales">>, <<"commerce">>, <<"fashion">>, <<"clothing">>,
                   <<"goods">> >>],
  [label |-> "Technology & Software",
   patterns |-> << <<"tech">>, <<"software">>, <<"systems">>, <<"digital">>,
                   <<"data">>, <<"cyber">>, <<"cloud">>, <<"analytics">>,
                   <<"automation">>, <<"ai">>, <<"machine learning">> >>],
  [label |-> "Manufacturing",
   patterns |-> << <<"manufacturing">>, <<"factory">>, <<"production">>,
                   <<"industrial">>, <<"automotive">>, <<"steel">>,
                   <<"chemical">>, <<"pharmaceutical">> >>] >>

TopicMatches(t, name) ==
    LET low == lower(name)
    IN  \E p \in 1..Len(Topics[t].patterns) :
            PatternMatches(Topics[t].patterns[p], low)

\* the rule matcher with the last matching topic winning
categorize_with_regex_last(company_name) ==
    IF ~Truthy(company_name) \/ IsNA(company_name) THEN None
    ELSE IF ~IsStr(company_name)
         THEN Raised("AttributeError")
         ELSE LET name == lower(company_name.v)
                  hits == {t \in 1..Len(Topics) : TopicMatches(t, name)}
              IN  IF hits = {} THEN None ELSE Str(Topics[Max(hits)].label)

categorize_with_regex(company_name) ==
    IF ~Truthy(company_name) \/ IsNA(company_name) THEN None
    ELSE IF ~IsStr(company_name)
         THEN Raised("AttributeError")
         ELSE LET name == lower(company_name.v)
                  hits == {t \in 1..Len(Topics) : TopicMatches(t, name)}
              IN  IF hits = {} THEN None ELSE Str(Topics[Min(hits)].label)

---------------------------------------------------------------------------
(* Inputs                                                                  *)

\* the Company cells of the uploaded files
Companies == { Str("Acme Ltd"), Str("ACME LIMITED"), Str("Acme HR"),
               Str("Acme HR Solutions"), Str("Queensland Health"),
               Str("Unknown Widgets Co"), Str("N/A"), Str(""), NaN }

\* the Company cells of the files longer than one batch
RunCompanies == { Str("Acme Ltd"), Str("Queensland Health") }

Job(company) == [f \in {"Job Title", "Company", "Location", "Salary", "Job URL"} |->
                    CASE f = "Job Title" -> Str("Engineer")
                      [] f = "Company" -> company
                      [] f = "Location" -> Str("Brisbane")
                      [] f = "Salary" -> NaN
                      [] OTHER -> Str("https://jobs.example/1")]

\* dict.get(key, default)
Get(d, key, default) == IF key \in DOMAIN d THEN d[key] ELSE default

\* DEEPSEEK_API_KEY in st.secrets, and in the environment ("" when absent)
SecretKeys == {"", "sk-or-v1-0a1b"}
EnvKeys == {"", "sk-or-v1-0a1b"}

\* the normalizer and the rule matcher on the names of the files, computed once
NormalizedKey == [c \in Companies \cup RunCompanies |-> normalize_company_name(c)]
RegexCategory == [c \in Companies \cup RunCompanies |-> categorize_with_regex(c)]

\* what one HTTP request can come to
Contents == { Str(""), Str(" \n"), Str(" Consulting\n"), None }
Responses ==
    {[kind |-> "raise", status |-> 0, json |-> FALSE, content |-> None]}
      \cup {[kind |-> "http", status |-> st, json |-> FALSE, content |-> None] :
               st \in {200, 429, 500}}
      \cup {[kind |-> "http", status |-> 200, json |-> TRUE, content |-> c] :
               c \in Contents}

---------------------------------------------------------------------------
(* State                                                                   *)

VARIABLES
    jobs_data,            \* the records of the uploaded file, mutated in place
    session,              \* st.session_state of the categorizer page
    pc,                   \* where categorize_jobs stands
    api_key,              \* CompanyCategorizer.api_key
    i,                    \* categorize_jobs: offset of the current batch
    categorized_jobs,     \* categorize_jobs: the batches returned so far
    n,                    \* categorize_companies: position of job in jobs_data
    company_categories,   \* categorize_companies: the cache
    regex_matches, api_calls, processed,
    ai_args,              \* categorize_company_with_ai: its arguments
    ai_result,            \* categorize_company_with_ai: the value it returned
    depth,                \* frames of categorize_company_with_ai on the stack
    responses,            \* history: what the HTTP requests sent for the
                          \* current record came to, in order
    backoffs,             \* history: 2 s sleeps taken for the current record
    raised,               \* the exception that left categorize_companies
    invoked,              \* history: <<batch offset, key>> of each invocation
                          \* of categorize_company_with_ai by the orchestrator
    log,                  \* history, per record: the branch that labeled it
                          \* and the 1.2 s sleeps taken after it
    reported,             \* the counts categorize_companies has shown with
                          \* st.success, one entry for each call
    call,                 \* a call of normalize_company_name and of
                          \* categorize_with_regex on their own: the argument
                          \* and what they returned
    export,               \* a call of ExcelExporter.export_jobs: the argument
                          \* and the sheet it returned
    ex_pc,                \* where extract_jobs stands
    url,                  \* extract_jobs: its argument
    page_count, all_jobs, current_url,
    extraction,           \* st.session_state of the extractor page
    status_text,          \* the closing line extract_jobs has shown
    fetches,              \* history: pages requested with session.get
    extracted,            \* history: pages whose jobs went into all_jobs
    rp_pc,                \* where AIParser.parse_resume stands
    resume_text,          \* parse_resume: its argument
    attempt,              \* _make_api_call_with_retry: its loop variable
    api_trace,            \* history: the API calls and the sleeps of the
                          \* current _make_api_call_with_retry, in order
    api_response,         \* what _make_api_call_with_retry returned
    parsed_data,          \* what parse_resume returned
    app_pc,               \* where process_resumes stands
    uploaded_files,       \* process_resumes: its argument
    file_no,              \* process_resumes: files the loop has taken
    state,                \* st.session_state of the resume page
    successful_processes,
    file_log,             \* history, per file taken: how its pass ended
    display_data,         \* the rows main has shown in the table
    workbook              \* the sheet generate_and_download_excel has sent

vars == <<jobs_data, session, pc, api_key, i, categorized_jobs,
          n, company_categories, regex_matches, api_calls, processed,
          ai_args, ai_result, depth, responses, backoffs, raised, invoked, log,
          reported, call, export,
          ex_pc, url, page_count, all_jobs, current_url, extraction,
          status_text, fetches, extracted,
          rp_pc, resume_text, attempt, api_trace, api_response, parsed_data,
          app_pc, uploaded_files, file_no, state, successful_processes,
          file_log, display_data, workbook>>

parser_vars == <<rp_pc, resume_text, attempt, api_trace, api_response,
                 parsed_data>>
app_vars == <<app_pc, uploaded_files, file_no, state, successful_processes,
              file_log, display_data, workbook>>
resume_vars == <<parser_vars, app_vars>>

extractor_vars == <<ex_pc, url, page_count, all_jobs, current_url,
                    extraction, status_text, fetches, extracted>>

\* what the steps of the job categorizer leave alone
not_categorizer == <<call, export, extractor_vars, resume_vars>>

batch_size == 10

total_jobs == Len(jobs_data)
\* the records of jobs_data[i:i+batch_size], as positions of jobs_data
BatchEnd == IF i + batch_size < total_jobs THEN i + batch_size ELSE total_jobs

NoArgs == [job_title |-> None, company_name |-> None]
NoLog == [path |-> "", delays |-> 0]
\* a function that has not been called has returned nothing yet
NotCalled == [type |-> "pending", v |-> ""]
NoCall == [company_name |-> None, normalized |-> NotCalled,
           renormalized |-> NotCalled, category |-> NotCalled]
NoExport == [jobs_data |-> <<>>, sheet |-> NotCalled]

\* the extractor page as show_page initialises it, extract_jobs not called
ExtractorIdle ==
    /\ ex_pc = "idle"
    /\ page_count = 0 /\ all_jobs = <<>> /\ current_url = None
    /\ extraction = [extracted_jobs |-> <<>>,
                     extraction_in_progress |-> FALSE,
                     extraction_complete |-> FALSE]
    /\ status_text = None
    /\ fetches = 0 /\ extracted = 0

\* AIParser.parse_resume not called
ParserIdle ==
    /\ rp_pc = "idle"
    /\ resume_text = None
    /\ attempt = 0 /\ api_trace = <<>>
    /\ api_response = NotCalled /\ parsed_data = NotCalled

\* the resume page as main initialises it, no file uploaded
ResumePageIdle ==
    /\ app_pc = "idle"
    /\ uploaded_files = <<>> /\ file_no = 0
    /\ state = [processed_candidates |-> <<>>,
                processing_complete |-> FALSE,
                processing_in_progress |-> FALSE]
    /\ successful_processes = 0
    /\ file_log = <<>>
    /\ display_data = NotCalled /\ workbook = NotCalled

FilesOver(names, lens) ==
    UNION {[1..len -> {Job(c) : c \in names}] : len \in lens}

InitState(files) ==
    /\ jobs_data \in files
    /\ session = [categorization_in_progress |-> FALSE,
                  categorization_complete |-> FALSE,
                  job_data |-> <<>>]
    /\ pc = "idle"
    /\ api_key = ""
    /\ i = 0
    /\ categorized_jobs = <<>>
    /\ n = 0
    /\ company_categories = <<>>
    /\ regex_matches = 0 /\ api_calls = 0 /\ processed = 0
    /\ ai_args = NoArgs
    /\ ai_result = None
    /\ depth = 0
    /\ responses = <<>> /\ backoffs = 0
    /\ raised = ""
    /\ invoked = <<>>
    /\ log = [r \in 1..Len(jobs_data) |-> NoLog]
    /\ reported = <<>>
    /\ call = NoCall
    /\ export = NoExport
    /\ url = None /\ ExtractorIdle
    /\ ParserIdle /\ ResumePageIdle

\* files of at most one batch
Init == InitState(FilesOver(Companies, 0..MaxBatch))

---------------------------------------------------------------------------
(* categorize_jobs                                                         *)

\* st.secrets.get("DEEPSEEK_API_KEY", "") if "DEEPSEEK_API_KEY" in st.secrets else ""
SecretKey(secret) == secret

\* CompanyCategorizer.__init__: self.api_key
CompanyCategorizerInit(key, env) == IF key = "" THEN env ELSE key

CategorizeJobsStart ==
    /\ pc = "idle"
    /\ session' = [categorization_in_progress |-> TRUE,
                   categorization_complete |-> FALSE,
                   job_data |-> <<>>]
    /\ \E secret \in SecretKeys, env \in EnvKeys :
          api_key' = CompanyCategorizerInit(SecretKey(secret), env)
    /\ i' = 0
    /\ categorized_jobs' = <<>>
    /\ pc' = "batch_loop"
    /\ UNCHANGED <<not_categorizer, reported, jobs_data, n, company_categories,
                   regex_matches, api_calls, processed, ai_args, ai_result,
                   depth, responses, backoffs, raised, invoked, log>>

\* the next batch is handed to categorize_companies, which starts on it
BatchBegin ==
    /\ pc = "batch_loop"
    /\ i < total_jobs
    /\ regex_matches' = 0 /\ api_calls' = 0 /\ processed' = 0
    /\ company_categories' = <<>>
    /\ n' = i + 1
    /\ pc' = "record"
    /\ UNCHANGED <<not_categorizer, reported, jobs_data, session, api_key, i,
                   categorized_jobs, ai_args, ai_result, depth, responses,
                   backoffs, raised, invoked, log>>

\* jobs_data[i:i+batch_size], with the labels assigned in place
batch == SubSeq(jobs_data, i + 1, BatchEnd)

\* categorize_companies reports its counts and returns the batch,
\* categorize_jobs appends it
BatchReturn ==
    /\ pc = "record"
    /\ n > BatchEnd
    /\ categorized_jobs' = categorized_jobs \o batch
    /\ reported' = Append(reported, [total_companies |-> Len(batch),
                                     regex_matches |-> regex_matches,
                                     api_calls |-> api_calls])
    /\ i' = i + batch_size
    /\ pc' = "batch_loop"
    /\ UNCHANGED <<not_categorizer, jobs_data, session, api_key, n,
                   company_categories, regex_matches, api_calls, processed,
                   ai_args, ai_result, depth, responses, backoffs, raised,
                   invoked, log>>

CategorizeJobsFinish ==
    /\ pc = "batch_loop"
    /\ i >= total_jobs
    /\ session' = [categorization_in_progress |-> FALSE,
                   categorization_complete |-> TRUE,
                   job_data |-> categorized_jobs]
    /\ pc' = "done"
    /\ UNCHANGED <<not_categorizer, reported, jobs_data, api_key, i, categorized_jobs, n,
                   company_categories, regex_matches, api_calls, processed,
                   ai_args, ai_result, depth, responses, backoffs, raised,
                   invoked, log>>

---------------------------------------------------------------------------
(* categorize_companies: one pass of "for job in jobs_data"                *)

requests == Len(responses)

job == jobs_data[n]
company == Get(job, "Company", Str(""))
job_title == Get(job, "Job Title", Str(""))
normalized_company == NormalizedKey[company]
\* the rule matcher left out
regex_category_skipped == None
\* the rule matcher run only when there is a credential
regex_category_needs_key == IF api_key = "" THEN None ELSE RegexCategory[company]
regex_category == RegexCategory[company]

\* "N/A" taken for a company name
HasCompanyNotEmpty == Truthy(company)
HasCompany == Truthy(company) /\ ~IsNA(company)
\* the fallback taken whether or not there is a credential
HasApiKeyAlways == TRUE
\* if self.api_key:
HasApiKey == api_key # ""
\* the cache looked up by the raw name
InCacheRaw(key) == company \in DOMAIN company_categories
InCache(key) == key \in DOMAIN company_categories

\* the label assigned, and the Company field replaced by its normalized key
LabelNormalizing(label, path) ==
    /\ jobs_data' = [jobs_data EXCEPT ![n] =
                        ("Business Nature" :> label)
                            @@ ("Company" :> NormalizedKey[company]) @@ @]
    /\ log' = [log EXCEPT ![n] = [path |-> path, delays |-> 0]]

\* job['Business Nature'] = label, and the history of the branch taken
Label(label, path) ==
    /\ jobs_data' = [jobs_data EXCEPT ![n] = ("Business Nature" :> label) @@ @]
    /\ log' = [log EXCEPT ![n] = [path |-> path, delays |-> 0]]

\* the label assigned and not stored
StoreNothing(label) == UNCHANGED company_categories

\* company_categories[normalized_company] = label
Store(label) ==
    company_categories' = (normalized_company :> label) @@ company_categories

InRecord == pc = "record" /\ n <= BatchEnd

RecordEmpty ==
    /\ InRecord
    /\ ~HasCompany
    /\ Label(Str("Unknown"), "empty")
    /\ n' = n + 1
    /\ UNCHANGED <<not_categorizer, reported, session, pc, api_key, i, categorized_jobs,
                   company_categories, regex_matches, api_calls, processed,
                   ai_args, ai_result, depth, responses, backoffs, raised,
                   invoked>>

\* the exception reported and the flag left as it is
RecordRaiseFlagKept ==
    /\ InRecord
    /\ HasCompany
    /\ IsRaised(normalized_company)
    /\ processed' = processed + 1
    /\ raised' = normalized_company.v
    /\ session' = session
    /\ pc' = "failed"
    /\ UNCHANGED <<not_categorizer, reported, jobs_data, api_key, i, categorized_jobs, n,
                   company_categories, regex_matches, api_calls, ai_args,
                   ai_result, depth, responses, backoffs, invoked, log>>

\* normalize_company_name raises; nothing catches it before the except
\* clause of categorize_jobs
RecordRaise ==
    /\ InRecord
    /\ HasCompany
    /\ IsRaised(normalized_company)
    /\ processed' = processed + 1
    /\ raised' = normalized_company.v
    /\ session' = [session EXCEPT !.categorization_in_progress = FALSE]
    /\ pc' = "failed"
    /\ UNCHANGED <<not_categorizer, reported, jobs_data, api_key, i, categorized_jobs, n,
                   company_categories, regex_matches, api_calls, ai_args,
                   ai_result, depth, responses, backoffs, invoked, log>>

\* a cache hit that runs the rule matcher all the same
RecordCacheHitRematch ==
    /\ InRecord
    /\ HasCompany
    /\ ~IsRaised(normalized_company)
    /\ InCache(normalized_company)
    /\ processed' = processed + 1
    /\ Label(company_categories[normalized_company], "cache")
    /\ regex_matches' = regex_matches + (IF Truthy(regex_category) THEN 1 ELSE 0)
    /\ n' = n + 1
    /\ UNCHANGED <<not_categorizer, reported, session, pc, api_key, i, categorized_jobs,
                   company_categories, api_calls, ai_args,
                   ai_result, depth, responses, backoffs, raised, invoked>>

RecordCacheHit ==
    /\ InRecord
    /\ HasCompany
    /\ ~IsRaised(normalized_company)
    /\ InCache(normalized_company)
    /\ processed' = processed + 1
    /\ Label(company_categories[normalized_company], "cache")
    /\ n' = n + 1
    /\ UNCHANGED <<not_categorizer, reported, session, pc, api_key, i, categorized_jobs,
                   company_categories, regex_matches, api_calls, ai_args,
                   ai_result, depth, responses, backoffs, raised, invoked>>

RecordRegex ==
    /\ InRecord
    /\ HasCompany
    /\ ~IsRaised(normalized_company)
    /\ ~InCache(normalized_company)
    /\ Truthy(regex_category)
    /\ processed' = processed + 1
    /\ Store(regex_category)
    /\ Label(regex_category, "regex")
    /\ regex_matches' = regex_matches + 1
    /\ n' = n + 1
    /\ UNCHANGED <<not_categorizer, reported, session, pc, api_key, i, categorized_jobs,
                   api_calls, ai_args, ai_result, depth, responses, backoffs,
                   raised, invoked>>

\* the call of categorize_company_with_ai
RecordRemote ==
    /\ InRecord
    /\ HasCompany
    /\ ~IsRaised(normalized_company)
    /\ ~InCache(normalized_company)
    /\ ~Truthy(regex_category)
    /\ HasApiKey
    /\ processed' = processed + 1
    /\ ai_args' = [job_title |-> job_title, company_name |-> company]
    /\ responses' = <<>> /\ backoffs' = 0
    /\ invoked' = Append(invoked, <<i, normalized_company>>)
    /\ pc' = "ai_enter"
    /\ UNCHANGED <<not_categorizer, reported, jobs_data, session, api_key, i,
                   categorized_jobs, n, company_categories, regex_matches,
                   api_calls, ai_result, depth, raised, log>>

\* the result stored and assigned, the call not counted
RecordStoreUncounted ==
    /\ pc = "ai_return"
    /\ n >= 1
    /\ Store(ai_result)
    /\ Label(ai_result, "remote")
    /\ api_calls' = api_calls
    /\ pc' = "delay"
    /\ UNCHANGED <<not_categorizer, reported, session, api_key, i, categorized_jobs, n,
                   regex_matches, processed, ai_args, ai_result, depth,
                   responses, backoffs, raised, invoked>>

\* the classifier has returned: the result is stored and assigned
RecordStore ==
    /\ pc = "ai_return"
    /\ n >= 1
    /\ Store(ai_result)
    /\ Label(ai_result, "remote")
    /\ api_calls' = api_calls + 1
    /\ pc' = "delay"
    /\ UNCHANGED <<not_categorizer, reported, session, api_key, i, categorized_jobs, n,
                   regex_matches, processed, ai_args, ai_result, depth,
                   responses, backoffs, raised, invoked>>

\* the next record taken up without the sleep
RecordDelaySkipped ==
    /\ pc = "delay"
    /\ n' = n + 1
    /\ responses' = <<>> /\ backoffs' = 0
    /\ pc' = "record"
    /\ UNCHANGED <<not_categorizer, reported, jobs_data, session, api_key, i,
                   categorized_jobs, company_categories, regex_matches,
                   api_calls, processed, ai_args, ai_result, depth, raised,
                   invoked, log>>

\* time.sleep(1.2)
RecordDelay ==
    /\ pc = "delay"
    /\ log' = [log EXCEPT ![n].delays = @ + 1]
    /\ n' = n + 1
    /\ responses' = <<>> /\ backoffs' = 0
    /\ pc' = "record"
    /\ UNCHANGED <<not_categorizer, reported, jobs_data, session, api_key, i,
                   categorized_jobs, company_categories, regex_matches,
                   api_calls, processed, ai_args, ai_result, depth, raised,
                   invoked>>

RecordNoKey ==
    /\ InRecord
    /\ HasCompany
    /\ ~IsRaised(normalized_company)
    /\ ~InCache(normalized_company)
    /\ ~Truthy(regex_category)
    /\ ~HasApiKey
    /\ processed' = processed + 1
    /\ Store(Str("Unknown"))
    /\ Label(Str("Unknown"), "nokey")
    /\ n' = n + 1
    /\ UNCHANGED <<not_categorizer, reported, session, pc, api_key, i, categorized_jobs,
                   regex_matches, api_calls, ai_args, ai_result, depth,
                   responses, backoffs, raised, invoked>>

---------------------------------------------------------------------------
(* categorize_company_with_ai                                              *)

\* the first statement: no request for these arguments
ai_refuses(key, company_name) ==
    key = "" \/ ~Truthy(company_name) \/ IsNA(company_name)

\* response.ok
ok(response) == response.status < 400

\* the try block on a response other than 429: the value it returns, or
\* the exception that leaves it
try_block(response) ==
    IF response.kind = "raise" THEN Raised("RequestException")
    ELSE IF ~ok(response) THEN Str("Unknown")
    ELSE IF ~response.json THEN Raised("JSONDecodeError")
    ELSE IF ~IsStr(response.content) THEN Raised("AttributeError")
    ELSE LET category == strip(response.content.v)
         IN  IF category # "" THEN Str(category) ELSE Str("Unknown")

\* no except clause
except_reraise(result) == result
\* except Exception: return 'Unknown'
except_clause(result) == IF IsRaised(result) THEN Str("Unknown") ELSE result

ai_category(response) == except_clause(try_block(response))

rate_limited(response) == response.kind = "http" /\ response.status = 429

AiEnter ==
    /\ pc = "ai_enter"
    /\ IF ai_refuses(api_key, ai_args.company_name)
       THEN /\ ai_result' = Str("Unknown")
            /\ depth' = 0
            /\ pc' = "ai_return"
       ELSE /\ depth' = depth + 1
            /\ pc' = "ai_post"
            /\ UNCHANGED ai_result
    /\ UNCHANGED <<not_categorizer, reported, jobs_data, session, api_key, i,
                   categorized_jobs, n, company_categories, regex_matches,
                   api_calls, processed, ai_args, responses, backoffs, raised,
                   invoked, log>>

\* requests.post and the statements after it
AiPost ==
    /\ pc = "ai_post"
    /\ \E response \in Responses :
          /\ responses' = Append(responses, response)
          /\ IF rate_limited(response)
             THEN /\ pc' = "ai_sleep"
                  /\ UNCHANGED <<ai_result, depth>>
             ELSE /\ ai_result' = ai_category(response)
                  /\ depth' = 0
                  /\ pc' = "ai_return"
    /\ UNCHANGED <<not_categorizer, reported, jobs_data, session, api_key, i,
                   categorized_jobs, n, company_categories, regex_matches,
                   api_calls, processed, ai_args, backoffs, raised, invoked,
                   log>>

\* the retry taken without the sleep
AiSleepNoSleep ==
    /\ pc = "ai_sleep"
    /\ pc' = "ai_enter"
    /\ UNCHANGED <<not_categorizer, reported, jobs_data, session, api_key, i,
                   categorized_jobs, n, company_categories, regex_matches,
                   api_calls, processed, ai_args, ai_result, depth, responses,
                   backoffs, raised, invoked, log>>

\* time.sleep(2), then the recursive call; the interpreter refuses it with
\* a RecursionError at its limit, which the except clause turns to "Unknown"
AiSleep ==
    /\ pc = "ai_sleep"
    /\ backoffs' = backoffs + 1
    /\ IF depth < RecursionLimit
       THEN /\ pc' = "ai_enter"
            /\ UNCHANGED <<ai_result, depth>>
       ELSE /\ ai_result' = except_clause(Raised("RecursionError"))
            /\ depth' = 0
            /\ pc' = "ai_return"
    /\ UNCHANGED <<not_categorizer, reported, jobs_data, session, api_key, i,
                   categorized_jobs, n, company_categories, regex_matches,
                   api_calls, processed, ai_args, responses, raised, invoked,
                   log>>

---------------------------------------------------------------------------
(* Specifications                                                          *)

Next ==
    \/ CategorizeJobsStart
    \/ BatchBegin
    \/ RecordEmpty
    \/ RecordRaise
    \/ RecordCacheHit
    \/ RecordRegex
    \/ RecordRemote
    \/ AiEnter
    \/ AiPost
    \/ AiSleep
    \/ RecordStore
    \/ RecordDelay
    \/ RecordNoKey
    \/ BatchReturn
    \/ CategorizeJobsFinish

\* one run of categorize_jobs on a file of at most one batch
Spec == Init /\ [][Next]_vars

\* the same, the scheduler never stopping a run that can go on
FairSpec == Spec /\ WF_vars(Next)

\* files of at most one batch, and files of more than one batch
InitRun ==
    InitState(FilesOver(Companies, 0..MaxBatch)
                \cup FilesOver(RunCompanies,
                               (batch_size + 1)..(batch_size + MaxTail)))

\* one run of categorize_jobs on a file of any of these lengths
SpecRun == InitRun /\ [][Next]_vars

\* categorize_company_with_ai called on its own, with any arguments
InitClassifier ==
    /\ jobs_data = <<>>
    /\ session = [categorization_in_progress |-> FALSE,
                  categorization_complete |-> FALSE,
                  job_data |-> <<>>]
    /\ pc = "ai_enter"
    /\ \E secret \in SecretKeys, env \in EnvKeys :
          api_key = CompanyCategorizerInit(SecretKey(secret), env)
    /\ i = 0
    /\ categorized_jobs = <<>>
    /\ n = 0
    /\ company_categories = <<>>
    /\ regex_matches = 0 /\ api_calls = 0 /\ processed = 0
    /\ ai_args \in [job_title : {Str("Engineer"), NaN}, company_name : Companies]
    /\ ai_result = None
    /\ depth = 0
    /\ responses = <<>> /\ backoffs = 0
    /\ raised = ""
    /\ invoked = <<>>
    /\ log = <<>>
    /\ reported = <<>>
    /\ call = NoCall
    /\ export = NoExport
    /\ url = None /\ ExtractorIdle
    /\ ParserIdle /\ ResumePageIdle

NextClassifier == AiEnter \/ AiPost \/ AiSleep

SpecClassifier == InitClassifier /\ [][NextClassifier]_vars

---------------------------------------------------------------------------
(* normalize_company_name and categorize_with_regex called on their own    *)

RECURSIVE Join(_)
Join(ws) == IF Len(ws) = 1 THEN ws[1] ELSE ws[1] \o " " \o Join(Tail(ws))

\* the names of at most max words out of words, a space between two words
NamesOf(words, max) ==
    {Join(ws) : ws \in UNION {[1..k -> words] : k \in 1..max}}

\* words of company names: an article, proper names, corporate suffixes
Words == {"The", "Acme", "Pty", "Ltd", "Co", "Group"}
\* one word for each topic of the rule matcher
TopicWords == {"Talent", "Care", "Bank", "School", "Building", "Shop",
               "Tech", "Steel"}
\* names as they are typed, and what a cell holds in place of a name
OtherNames == { Str("Tech Talent Solutions"), Str("Maine Steel"),
                Str("Unknown Widgets"), Str("Bank of the West"),
                Str("The Smith Group"), Str("Acme Pty Ltd"),
                Str("  ACME   LIMITED "), Str("Acme (Pty) Ltd."),
                Str("Acme Ltd ."), Str("Smith & Co"),
                Str("N/A"), Str(""), None, NaN }

CompanyNames ==
    {Str(w) : w \in NamesOf(Words, MaxWords) \cup NamesOf(TopicWords, MaxTopicWords)}
        \cup OtherNames

InitNames ==
    /\ jobs_data = <<>>
    /\ session = [categorization_in_progress |-> FALSE,
                  categorization_complete |-> FALSE,
                  job_data |-> <<>>]
    /\ pc = "call"
    /\ api_key = ""
    /\ i = 0
    /\ categorized_jobs = <<>>
    /\ n = 0
    /\ company_categories = <<>>
    /\ regex_matches = 0 /\ api_calls = 0 /\ processed = 0
    /\ ai_args = NoArgs
    /\ ai_result = None
    /\ depth = 0
    /\ responses = <<>> /\ backoffs = 0
    /\ raised = ""
    /\ invoked = <<>>
    /\ log = <<>>
    /\ reported = <<>>
    /\ call \in [company_name : CompanyNames, normalized : {NotCalled},
                  renormalized : {NotCalled}, category : {NotCalled}]
    /\ export = NoExport
    /\ url = None /\ ExtractorIdle
    /\ ParserIdle /\ ResumePageIdle

program_vars == <<jobs_data, session, pc, api_key, i, categorized_jobs,
                  n, company_categories, regex_matches, api_calls, processed,
                  ai_args, ai_result, depth, responses, backoffs, raised,
                  invoked, log, reported>>

\* what a call of the normalizer or of the rule matcher leaves alone
not_names == <<program_vars, export, extractor_vars, resume_vars>>

\* normalize_company_name(company_name)
NormalizeName ==
    /\ pc = "call"
    /\ call.normalized = NotCalled
    /\ call' = [call EXCEPT !.normalized = normalize_company_name(call.company_name)]
    /\ UNCHANGED not_names

\* normalize_company_name on the key it returned
NormalizeKey ==
    /\ pc = "call"
    /\ call.normalized # NotCalled
    /\ ~IsRaised(call.normalized)
    /\ call.renormalized = NotCalled
    /\ call' = [call EXCEPT !.renormalized = normalize_company_name(call.normalized)]
    /\ UNCHANGED not_names

\* categorize_with_regex(company_name)
RegexName ==
    /\ pc = "call"
    /\ call.category = NotCalled
    /\ call' = [call EXCEPT !.category = categorize_with_regex(call.company_name)]
    /\ UNCHANGED not_names

NextNames == NormalizeName \/ NormalizeKey \/ RegexName

SpecNames == InitNames /\ [][NextNames]_vars

---------------------------------------------------------------------------
(* ExcelExporter.export_jobs                                               *)

\* the row dict with the Business Nature put last
JobColumnsAppended == <<"Job Title", "Company", "Location", "Salary",
                        "Job URL", "Business Nature">>
\* the keys of the row dict, in the order it is written
JobColumns == <<"Job Title", "Company", "Business Nature", "Location",
                "Salary", "Job URL">>

Annotated(job_rec, label) == ("Business Nature" :> Str(label)) @@ job_rec
Restrict(job_rec, keys) == [f \in DOMAIN job_rec \cap keys |-> job_rec[f]]

\* annotated records: whole, lacking fields, with a field of their own
ExportRecords ==
    LET whole == { Annotated(Job(Str("Acme Ltd")), "Unknown"),
                   Annotated(Job(Str("Queensland Health")), "Healthcare Services") }
        fields == { {"Job Title", "Company", "Business Nature", "Location",
                     "Salary", "Job URL"},
                    {"Job Title", "Company", "Business Nature", "Location",
                     "Job URL"},
                    {"Job Title", "Company", "Location", "Salary", "Job URL"},
                    {"Company"},
                    {} }
    IN  {Restrict(w, fs) : w \in whole, fs \in fields}
          \cup {("Posted" :> Str("today")) @@ w : w \in whole}

\* the ordered row dict of one record
row(job_rec) ==
    [c \in 1..Len(JobColumns) |->
        <<JobColumns[c], Get(job_rec, JobColumns[c], Str(""))>>]

\* pd.DataFrame(excel_data): the columns are the keys in their order
DataFrame(excel_data) ==
    [columns |-> [c \in 1..Len(excel_data[1]) |-> excel_data[1][c][1]],
     values |-> [r \in 1..Len(excel_data) |->
                   [c \in 1..Len(excel_data[r]) |-> excel_data[r][c][2]]]]

\* a missing value is written as an empty cell (na_rep = '')
cell(value) == IF value = NaN THEN Str("") ELSE value

\* df.to_excel(writer, sheet_name=..., index=False): a header row, then
\* one row for each row of the frame
to_excel(df, sheet_name) ==
    [type |-> "xlsx", sheet_name |-> sheet_name, header |-> df.columns,
     rows |-> [r \in 1..Len(df.values) |->
                 [c \in 1..Len(df.values[r]) |-> cell(df.values[r][c])]]]

export_jobs(jobs) ==
    IF jobs = <<>>
    THEN Raised("ValueError")
    ELSE to_excel(DataFrame([r \in 1..Len(jobs) |-> row(jobs[r])]), "Job Data")

InitExport ==
    /\ jobs_data = <<>>
    /\ session = [categorization_in_progress |-> FALSE,
                  categorization_complete |-> FALSE,
                  job_data |-> <<>>]
    /\ pc = "export"
    /\ api_key = ""
    /\ i = 0
    /\ categorized_jobs = <<>>
    /\ n = 0
    /\ company_categories = <<>>
    /\ regex_matches = 0 /\ api_calls = 0 /\ processed = 0
    /\ ai_args = NoArgs
    /\ ai_result = None
    /\ depth = 0
    /\ responses = <<>> /\ backoffs = 0
    /\ raised = ""
    /\ invoked = <<>>
    /\ log = <<>>
    /\ reported = <<>>
    /\ call = NoCall
    /\ export \in [jobs_data : UNION {[1..len -> ExportRecords] : len \in 0..MaxRows},
                    sheet : {NotCalled}]
    /\ url = None /\ ExtractorIdle
    /\ ParserIdle /\ ResumePageIdle

\* what a call of the exporter leaves alone
not_export == <<program_vars, call, extractor_vars, resume_vars>>

ExportJobs ==
    /\ pc = "export"
    /\ export.sheet = NotCalled
    /\ export' = [export EXCEPT !.sheet = export_jobs(export.jobs_data)]
    /\ UNCHANGED not_export

NextExport == ExportJobs

SpecExport == InitExport /\ [][NextExport]_vars

---------------------------------------------------------------------------
(* extract_jobs                                                            *)

max_pages == 50

\* search result pages of the site
SearchUrls == { Str("https://www.seek.com.au/jobs"),
                Str("https://www.seek.com.au/jobs?page=2") }

\* the jobs extract_seek_jobs finds on a page
ExtractedJob == [job_title |-> Str("Engineer"), company |-> Str("Acme Ltd"),
                 location |-> Str("Brisbane")]
PageJobs == {[k \in 1..len |-> ExtractedJob] : len \in 0..MaxPageJobs}

\* the job categorizer with no file uploaded
CategorizerUnused ==
    /\ jobs_data = <<>>
    /\ session = [categorization_in_progress |-> FALSE,
                  categorization_complete |-> FALSE,
                  job_data |-> <<>>]
    /\ pc = "unused"
    /\ api_key = ""
    /\ i = 0
    /\ categorized_jobs = <<>>
    /\ n = 0
    /\ company_categories = <<>>
    /\ regex_matches = 0 /\ api_calls = 0 /\ processed = 0
    /\ ai_args = NoArgs
    /\ ai_result = None
    /\ depth = 0
    /\ responses = <<>> /\ backoffs = 0
    /\ raised = ""
    /\ invoked = <<>>
    /\ log = <<>>
    /\ reported = <<>>

InitExtractor ==
    /\ CategorizerUnused
    /\ call = NoCall
    /\ export = NoExport
    /\ url \in SearchUrls
    /\ ExtractorIdle
    /\ ParserIdle /\ ResumePageIdle

not_extractor == <<program_vars, call, export, resume_vars>>

\* the three assignments before the try block
ExtractJobsStart ==
    /\ ex_pc = "idle"
    /\ extraction' = [extracted_jobs |-> <<>>,
                      extraction_in_progress |-> TRUE,
                      extraction_complete |-> FALSE]
    /\ ex_pc' = "setup"
    /\ UNCHANGED <<not_extractor, url, page_count, all_jobs, current_url,
                   status_text, fetches, extracted>>

\* the progress widgets and the loop variables
ExtractSetup ==
    /\ ex_pc = "setup"
    /\ page_count' = 1
    /\ all_jobs' = <<>>
    /\ current_url' = url
    /\ ex_pc' = "loop"
    /\ UNCHANGED <<not_extractor, url, extraction, status_text, fetches,
                   extracted>>

InLoop == ex_pc = "loop" /\ page_count <= max_pages

\* session.get answers 403: the warning, and break
FetchDenied ==
    /\ InLoop
    /\ fetches' = fetches + 1
    /\ ex_pc' = "finish"
    /\ UNCHANGED <<not_extractor, url, page_count, all_jobs, current_url,
                   extraction, status_text, extracted>>

\* the request, raise_for_status with another status, or the parsing
\* raises: the inner except clause, and break
FetchError ==
    /\ InLoop
    /\ fetches' \in {fetches, fetches + 1}
    /\ ex_pc' = "finish"
    /\ UNCHANGED <<not_extractor, url, page_count, all_jobs, current_url,
                   extraction, status_text, extracted>>

\* a page is fetched and parsed, the pages not counted
FetchPageUncounted ==
    /\ InLoop
    /\ fetches' = fetches + 1
    /\ \E page_jobs \in PageJobs, next_url \in SearchUrls \cup {None} :
          IF page_jobs = <<>> /\ page_count > 1
          THEN /\ ex_pc' = "finish"
               /\ UNCHANGED <<all_jobs, extracted, current_url, page_count>>
          ELSE /\ all_jobs' = all_jobs \o page_jobs
               /\ extracted' = extracted + 1
               /\ IF ~Truthy(next_url)
                  THEN /\ ex_pc' = "finish"
                       /\ UNCHANGED <<current_url, page_count>>
                  ELSE /\ current_url' = next_url
                       /\ page_count' = page_count
                       /\ ex_pc' = "loop"
    /\ UNCHANGED <<not_extractor, url, extraction, status_text>>

\* a page is fetched and parsed
FetchPage ==
    /\ InLoop
    /\ fetches' = fetches + 1
    /\ \E page_jobs \in PageJobs, next_url \in SearchUrls \cup {None} :
          IF page_jobs = <<>> /\ page_count > 1
          THEN /\ ex_pc' = "finish"
               /\ UNCHANGED <<all_jobs, extracted, current_url, page_count>>
          ELSE /\ all_jobs' = all_jobs \o page_jobs
               /\ extracted' = extracted + 1
               /\ IF ~Truthy(next_url)
                  THEN /\ ex_pc' = "finish"
                       /\ UNCHANGED <<current_url, page_count>>
                  ELSE /\ current_url' = next_url
                       /\ page_count' = page_count + 1
                       /\ ex_pc' = "loop"
    /\ UNCHANGED <<not_extractor, url, extraction, status_text>>

\* while page_count <= max_pages: the condition is false
LoopExit ==
    /\ ex_pc = "loop"
    /\ page_count > max_pages
    /\ ex_pc' = "finish"
    /\ UNCHANGED <<not_extractor, url, page_count, all_jobs, current_url,
                   extraction, status_text, fetches, extracted>>

\* the closing line and the results stored
ExtractFinish ==
    /\ ex_pc = "finish"
    /\ status_text' = [jobs |-> Len(all_jobs), pages |-> page_count - 1]
    /\ extraction' = [extraction EXCEPT !.extracted_jobs = all_jobs,
                                        !.extraction_complete = TRUE]
    /\ ex_pc' = "finally"
    /\ UNCHANGED <<not_extractor, url, page_count, all_jobs, current_url,
                   fetches, extracted>>

\* a call outside the page loop raises: the outer except clause
ExtractRaise ==
    /\ ex_pc \in {"setup", "finish"}
    /\ ex_pc' = "finally"
    /\ UNCHANGED <<not_extractor, url, page_count, all_jobs, current_url,
                   extraction, status_text, fetches, extracted>>

\* the finally clause
ExtractFinally ==
    /\ ex_pc = "finally"
    /\ extraction' = [extraction EXCEPT !.extraction_in_progress = FALSE]
    /\ ex_pc' = "returned"
    /\ UNCHANGED <<not_extractor, url, page_count, all_jobs, current_url,
                   status_text, fetches, extracted>>

NextExtractor ==
    \/ ExtractJobsStart
    \/ ExtractSetup
    \/ FetchDenied
    \/ FetchError
    \/ FetchPage
    \/ LoopExit
    \/ ExtractFinish
    \/ ExtractRaise
    \/ ExtractFinally

\* extract_jobs called once, the scheduler never stopping it
SpecExtractor == InitExtractor /\ [][NextExtractor]_vars /\ WF_vars(NextExtractor)

---------------------------------------------------------------------------
(* AIParser                                                                *)

max_retries == 3

\* str.startswith(prefix), str.endswith(suffix)
startswith(s, prefix) == LitAt(s, prefix, 1)
endswith(s, suffix) == LitAt(s, suffix, Len(s) - Len(suffix) + 1)

\* str.find(c), str.rfind(c) of a character: 0-based, -1 when absent
find(s, c) ==
    LET at == {k \in 1..Len(s) : Ch(s, k) = c}
    IN  IF at = {} THEN -1 ELSE Min(at) - 1
rfind(s, c) ==
    LET at == {k \in 1..Len(s) : Ch(s, k) = c}
    IN  IF at = {} THEN -1 ELSE Max(at) - 1

Dict(d) == [type |-> "dict", v |-> d]
List(l) == [type |-> "list", v |-> l]
\* d[key] = value
Put(d, key, value) ==
    [x \in DOMAIN d \cup {key} |-> IF x = key THEN value ELSE d[x]]
\* str(x) of a text and of None
to_str(x) == CASE x.type = "str" -> x.v
               [] x.type = "NoneType" -> "None"

\* json.loads on documents built of objects, arrays, strings without
\* escapes and null: a decoder returns the value and the text left over
NotJson == [ok |-> FALSE, val |-> None, rest |-> ""]
Decoded(value, s) == [ok |-> TRUE, val |-> value, rest |-> s]

RECURSIVE skip_ws(_)
skip_ws(s) == IF s # "" /\ IsSpace(Head(s)) THEN skip_ws(Tail(s)) ELSE s

\* the string whose opening quote has been read
scan_string(s) ==
    LET closing == {k \in 1..Len(s) : Ch(s, k) = "\""}
        chars == IF closing = {} THEN "" ELSE SubSeq(s, 1, Min(closing) - 1)
    IN  IF closing = {} THEN NotJson
        ELSE IF \E k \in 1..Len(chars) : Ch(chars, k) \in {"\n", "\t", "\\"}
        THEN NotJson
        ELSE Decoded(Str(chars), SubSeq(s, Min(closing) + 1, Len(s)))

RECURSIVE decode_value(_)
RECURSIVE decode_members(_, _)
RECURSIVE decode_elements(_, _)

\* the members of an object from the first key on, d the members read
decode_members(s, d) ==
    IF s = "" \/ Head(s) # "\"" THEN NotJson
    ELSE LET member == scan_string(Tail(s))
             colon == skip_ws(member.rest)
         IN  IF ~member.ok \/ colon = "" \/ Head(colon) # ":" THEN NotJson
             ELSE LET value == decode_value(Tail(colon))
                      after == skip_ws(value.rest)
                      members == Put(d, member.val.v, value.val)
                  IN  IF ~value.ok \/ after = "" THEN NotJson
                      ELSE IF Head(after) = "}"
                      THEN Decoded(Dict(members), Tail(after))
                      ELSE IF Head(after) = ","
                      THEN decode_members(skip_ws(Tail(after)), members)
                      ELSE NotJson

\* the elements of an array from the first one on, l the elements read
decode_elements(s, l) ==
    LET value == decode_value(s)
        after == skip_ws(value.rest)
        elements == Append(l, value.val)
    IN  IF ~value.ok \/ after = "" THEN NotJson
        ELSE IF Head(after) = "]"
        THEN Decoded(List(elements), Tail(after))
        ELSE IF Head(after) = ","
        THEN decode_elements(Tail(after), elements)
        ELSE NotJson

decode_value(s) ==
    LET body == skip_ws(s)
        inner == skip_ws(Tail(body))
    IN  IF body = "" THEN NotJson
        ELSE IF Head(body) = "\"" THEN scan_string(Tail(body))
        ELSE IF startswith(body, "null")
        THEN Decoded(None, SubSeq(body, 5, Len(body)))
        ELSE IF Head(body) = "{"
        THEN (IF inner # "" /\ Head(inner) = "}"
              THEN Decoded(Dict(<<>>), Tail(inner))
              ELSE decode_members(inner, <<>>))
        ELSE IF Head(body) = "["
        THEN (IF inner # "" /\ Head(inner) = "]"
              THEN Decoded(List(<<>>), Tail(inner))
              ELSE decode_elements(inner, <<>>))
        ELSE NotJson

json_loads(s) ==
    LET document == decode_value(s)
    IN  IF document.ok /\ skip_ws(document.rest) = ""
        THEN document.val
        ELSE Raised("JSONDecodeError")

Fields == <<"first_name", "last_name", "mobile", "email",
            "current_job_title", "current_company",
            "previous_job_title", "previous_company">>
FieldNames == {Fields[k] : k \in 1..Len(Fields)}

create_empty_structure == [f \in FieldNames |-> Str("")]

\* the document handed on as it was decoded
Unvalidated(data) == data
\* _validate_parsed_data of a dict
validate_parsed_data(data) ==
    [f \in FieldNames |-> Str(strip(to_str(Get(data, f, Str("")))))]

\* the marker of a Markdown code block: three backquotes, written here with
\* tildes
Fence == "~~~"

\* the text between the code block markers
unfenced(s) ==
    LET stripped == strip(s)
        opened == IF startswith(stripped, Fence \o "json")
                  THEN SubSeq(stripped, 8, Len(stripped))
                  ELSE IF startswith(stripped, Fence)
                  THEN SubSeq(stripped, 4, Len(stripped))
                  ELSE stripped
        closed == IF endswith(opened, Fence)
                  THEN SubSeq(opened, 1, Len(opened) - 3)
                  ELSE opened
    IN  strip(closed)

\* the text from the first "{" to the last "}", or all of it
json_text(s) ==
    LET start_idx == find(s, "{")
        end_idx == rfind(s, "}")
    IN  IF start_idx # -1 /\ end_idx # -1 /\ end_idx > start_idx
        THEN SubSeq(s, start_idx + 1, end_idx + 1)
        ELSE s

\* _parse_api_response: a JSONDecodeError, and the AttributeError of a
\* content or of a document that is no text or no dict, end in the empty
\* structure
parse_api_response(response_text) ==
    IF ~IsStr(response_text) THEN create_empty_structure
    ELSE LET parsed == json_loads(json_text(unfenced(response_text.v)))
         IN  IF parsed.type = "dict"
             THEN validate_parsed_data(parsed.v)
             ELSE create_empty_structure

\* what the service answers to one request
Message(content) == [status |-> 200,
                     choices |-> <<[message |-> [content |-> content]]>>]
Timeout == [status |-> 0, choices |-> <<>>]
FullBody ==
    "{\"first_name\": \"Ann\", \"last_name\": \"Lee\", "
      \o "\"mobile\": \"0400 111 222\", \"email\": \"ann@lee.id\", "
      \o "\"current_job_title\": \"Engineer\", \"current_company\": \"Acme\", "
      \o "\"previous_job_title\": \"Intern\", \"previous_company\": \"Beta\"}"
FencedBody ==
    Fence \o "json\n{\"first_name\": \" Bo \", \"email\": null}\n" \o Fence
Bodies == { FullBody, FencedBody,
            "Here it is: {\"last_name\": \"Tan\"} as asked.",
            "I could not read this resume.",
            "{\"first_name\": \"Ann\"",
            "[\"Ann\", \"Lee\"]",
            " \n" }
Replies ==
    { Timeout,
      [status |-> 500, choices |-> <<>>],
      [status |-> 200, choices |-> <<>>],
      [status |-> 200, choices |-> <<[message |-> <<>>]>>],
      Message(None), Message(Str("")), Message(List(<<>>)),
      Message(List(<<Str("Ann")>>)) }
      \cup {Message(Str(b)) : b \in Bodies}

\* _make_api_call: the content of the reply, or the exception it raises
make_api_call(reply) ==
    IF reply.status = 200
    THEN IF reply.choices = <<>>
         THEN Raised("Exception")
         ELSE Get(Get(reply.choices[1], "message", <<>>), "content", Str(""))
    ELSE Raised("Exception")

\* the texts parse_resume is called on
ResumeTexts == { Str("Ann Lee\nEngineer at Acme"), Str(""), Str(" \n"), None }

Called(content) == [op |-> "call", attempt |-> attempt, value |-> content]
Slept(seconds) == [op |-> "sleep", attempt |-> attempt, value |-> seconds]

\* parse_resume up to the call of _make_api_call_with_retry
ParseResumeEnter ==
    /\ rp_pc = "called"
    /\ IF ~Truthy(resume_text) \/ strip(resume_text.v) = ""
       THEN /\ parsed_data' = create_empty_structure
            /\ rp_pc' = "returned"
       ELSE /\ rp_pc' = "retry"
            /\ UNCHANGED parsed_data
    /\ UNCHANGED <<program_vars, call, export, extractor_vars, app_vars,
                   resume_text, attempt, api_trace, api_response>>

\* a pass that takes any content for a response
AnyContent(response) == TRUE
\* "if response:" of the pass
got_response(response) == Truthy(response)

\* one pass of "for attempt in range(max_retries)", and the return that
\* ends the loop
ApiAttempt(replies) ==
    /\ rp_pc = "retry"
    /\ attempt < max_retries
    /\ \E reply \in replies :
          LET response == make_api_call(reply)
              last == attempt = max_retries - 1
          IN  IF IsRaised(response)
              THEN IF last
                   THEN /\ api_trace' = Append(api_trace, Called(response))
                        /\ api_response' = None
                        /\ rp_pc' = "response"
                        /\ UNCHANGED attempt
                   ELSE /\ api_trace' = Append(Append(api_trace, Called(response)),
                                               Slept(2 ^ attempt))
                        /\ attempt' = attempt + 1
                        /\ UNCHANGED <<api_response, rp_pc>>
              ELSE /\ api_trace' = Append(api_trace, Called(response))
                   /\ IF got_response(response)
                      THEN /\ api_response' = response
                           /\ rp_pc' = "response"
                           /\ UNCHANGED attempt
                      ELSE IF last
                      THEN /\ api_response' = None
                           /\ rp_pc' = "response"
                           /\ UNCHANGED attempt
                      ELSE /\ attempt' = attempt + 1
                           /\ UNCHANGED <<api_response, rp_pc>>
    /\ UNCHANGED <<program_vars, call, export, extractor_vars, app_vars,
                   resume_text, parsed_data>>

\* parse_resume from the return of _make_api_call_with_retry on
ParseResumeReturn ==
    /\ rp_pc = "response"
    /\ parsed_data' = IF Truthy(api_response)
                      THEN parse_api_response(api_response)
                      ELSE create_empty_structure
    /\ rp_pc' = "returned"
    /\ UNCHANGED <<program_vars, call, export, extractor_vars, app_vars,
                   resume_text, attempt, api_trace, api_response>>

InitParser ==
    /\ CategorizerUnused
    /\ call = NoCall
    /\ export = NoExport
    /\ url = None /\ ExtractorIdle
    /\ rp_pc = "called"
    /\ resume_text \in ResumeTexts
    /\ attempt = 0 /\ api_trace = <<>>
    /\ api_response = NotCalled /\ parsed_data = NotCalled
    /\ ResumePageIdle

NextParser == ParseResumeEnter \/ ApiAttempt(Replies) \/ ParseResumeReturn

\* parse_resume called once, on any of the texts
SpecParser == InitParser /\ [][NextParser]_vars

---------------------------------------------------------------------------
(* process_resumes                                                         *)

\* the text after the last "." of a name, the name when it has none
after_last_dot(s) ==
    LET dots == {k \in 1..Len(s) : Ch(s, k) = "."}
    IN  IF dots = {} THEN s ELSE SubSeq(s, Max(dots) + 1, Len(s))

\* uploaded_file.name.lower().split('.')[-1]
file_extension(filename) == after_last_dot(lower(filename))

\* an uploaded file: its name and the text its processor gets out of it
\* ("" when it has none or cannot be read)
Uploads == { [name |-> "Ann Lee.pdf", text |-> "Ann Lee\nEngineer at Acme"],
             [name |-> "scan.PDF", text |-> ""],
             [name |-> "Bo Tan.docx", text |-> "Bo Tan"],
             [name |-> "notes.txt", text |-> "notes"] }
UploadLists == UNION {[1..len -> Uploads] : len \in 1..MaxFiles}

\* what the service answers while process_resumes runs
AppReplies == { Timeout, Message(Str("")), Message(Str(FullBody)),
                Message(Str(FencedBody)),
                Message(Str("I could not read this resume.")) }

\* process_pdf_file(uploaded_file), process_word_file(uploaded_file)
process_pdf_file(uploaded_file) == uploaded_file.text
process_word_file(uploaded_file) == uploaded_file.text

\* the file the loop is at
uploaded_file == uploaded_files[file_no + 1]
Skipped(how) == [name |-> uploaded_file.name, end |-> how]

\* the three assignments before the try block
ProcessResumesStart ==
    /\ app_pc = "idle"
    /\ state' = [processed_candidates |-> <<>>,
                 processing_complete |-> FALSE,
                 processing_in_progress |-> TRUE]
    /\ app_pc' = "init"
    /\ UNCHANGED <<program_vars, call, export, extractor_vars, parser_vars,
                   uploaded_files, file_no, successful_processes, file_log,
                   display_data, workbook>>

\* the services are created: AIParser raises without a key and when its
\* connection test fails
InitServices ==
    /\ app_pc = "init"
    /\ \E secret \in SecretKeys, connected \in BOOLEAN :
          IF secret = "" \/ ~connected
          THEN /\ state' = [state EXCEPT !.processing_in_progress = FALSE]
               /\ app_pc' = "returned"
          ELSE /\ app_pc' = "loop"
               /\ UNCHANGED state
    /\ UNCHANGED <<program_vars, call, export, extractor_vars, parser_vars,
                   uploaded_files, file_no, successful_processes, file_log,
                   display_data, workbook>>

\* one pass of "for i, uploaded_file in enumerate(uploaded_files)" up to
\* the call of parse_resume; a call of the page's widgets may raise
TakeFile ==
    /\ app_pc = "loop"
    /\ file_no < Len(uploaded_files)
    /\ \E raises \in BOOLEAN :
          LET extension == file_extension(uploaded_file.name)
              extracted_text ==
                  IF extension = "pdf" THEN process_pdf_file(uploaded_file)
                  ELSE process_word_file(uploaded_file)
          IN  IF raises
              THEN /\ file_log' = Append(file_log, Skipped("raised"))
                   /\ file_no' = file_no + 1
                   /\ UNCHANGED <<app_pc, parser_vars>>
              ELSE IF extension \notin {"pdf", "docx"}
              THEN /\ file_log' = Append(file_log, Skipped("unsupported"))
                   /\ file_no' = file_no + 1
                   /\ UNCHANGED <<app_pc, parser_vars>>
              ELSE IF strip(extracted_text) = ""
              THEN /\ file_log' = Append(file_log, Skipped("no text"))
                   /\ file_no' = file_no + 1
                   /\ UNCHANGED <<app_pc, parser_vars>>
              ELSE /\ app_pc' = "parsing"
                   /\ rp_pc' = "called"
                   /\ resume_text' = Str(extracted_text)
                   /\ attempt' = 0 /\ api_trace' = <<>>
                   /\ api_response' = NotCalled /\ parsed_data' = NotCalled
                   /\ UNCHANGED <<file_log, file_no>>
    /\ UNCHANGED <<program_vars, call, export, extractor_vars,
                   uploaded_files, state, successful_processes,
                   display_data, workbook>>

\* a list that takes the new entry at its head
insert_first(candidates, candidate) == <<candidate>> \o candidates
\* processed_candidates.append(parsed_data)
append(candidates, candidate) == Append(candidates, candidate)

\* the rest of the pass, from the return of parse_resume on
StoreCandidate ==
    /\ app_pc = "parsing"
    /\ rp_pc = "returned"
    /\ state' = [state EXCEPT !.processed_candidates =
                    append(@, ("filename" :> Str(uploaded_file.name))
                                 @@ parsed_data)]
    /\ successful_processes' = successful_processes + 1
    /\ file_log' = Append(file_log, Skipped("parsed"))
    /\ file_no' = file_no + 1
    /\ app_pc' = "loop"
    /\ rp_pc' = "idle"
    /\ resume_text' = None
    /\ attempt' = 0 /\ api_trace' = <<>>
    /\ api_response' = NotCalled /\ parsed_data' = NotCalled
    /\ UNCHANGED <<program_vars, call, export, extractor_vars,
                   uploaded_files, display_data, workbook>>

\* after the loop: the flags are set, or the last progress update raises
\* and the outer except clause runs
FinishProcessing ==
    /\ app_pc = "loop"
    /\ file_no = Len(uploaded_files)
    /\ \E raises \in BOOLEAN :
          state' = IF raises
                   THEN [state EXCEPT !.processing_in_progress = FALSE]
                   ELSE [state EXCEPT !.processing_complete = TRUE,
                                      !.processing_in_progress = FALSE]
    /\ app_pc' = "returned"
    /\ UNCHANGED <<program_vars, call, export, extractor_vars, parser_vars,
                   uploaded_files, file_no, successful_processes, file_log,
                   display_data, workbook>>

\* the columns of the table and of the sheet, each with the key it is
\* read from
CandidateColumns ==
    << <<"First Name", "first name">>, <<"Last Name", "last name">>,
       <<"Mobile", "mobile">>, <<"Email", "email">>,
       <<"Current Job Title", "current job title">>,
       <<"Current Company", "current company">>,
       <<"Previous Job Title", "previous job title">>,
       <<"Previous Company", "previous company">>,
       <<"Source File", "filename">> >>

\* the row dict of one candidate
candidate_row(candidate) ==
    [c \in 1..Len(CandidateColumns) |->
        <<CandidateColumns[c][1],
          Get(candidate, CandidateColumns[c][2], Str(""))>>]

export_candidates(candidates_data) ==
    IF candidates_data = <<>>
    THEN Raised("ValueError")
    ELSE to_excel(DataFrame([r \in 1..Len(candidates_data) |->
                                candidate_row(candidates_data[r])]),
                  "Resume Data")

\* main, run again after process_resumes: the table of the candidates
ShowCandidates ==
    /\ app_pc = "returned"
    /\ state.processed_candidates # <<>>
    /\ display_data = NotCalled
    /\ display_data' =
          DataFrame([r \in 1..Len(state.processed_candidates) |->
                        candidate_row(state.processed_candidates[r])])
    /\ UNCHANGED <<program_vars, call, export, extractor_vars, parser_vars,
                   app_pc, uploaded_files, file_no, state,
                   successful_processes, file_log, workbook>>

\* generate_and_download_excel, behind the button main shows when the
\* processing is complete
GenerateExcel ==
    /\ app_pc = "returned"
    /\ ~state.processing_in_progress
    /\ state.processed_candidates # <<>>
    /\ state.processing_complete
    /\ workbook = NotCalled
    /\ workbook' = export_candidates(state.processed_candidates)
    /\ UNCHANGED <<program_vars, call, export, extractor_vars, parser_vars,
                   app_pc, uploaded_files, file_no, state,
                   successful_processes, file_log, display_data>>

InitResumes ==
    /\ CategorizerUnused
    /\ call = NoCall
    /\ export = NoExport
    /\ url = None /\ ExtractorIdle
    /\ ParserIdle
    /\ app_pc = "idle"
    /\ uploaded_files \in UploadLists
    /\ file_no = 0
    /\ state = [processed_candidates |-> <<>>,
                processing_complete |-> FALSE,
                processing_in_progress |-> FALSE]
    /\ successful_processes = 0
    /\ file_log = <<>>
    /\ display_data = NotCalled /\ workbook = NotCalled

NextResumes ==
    \/ ProcessResumesStart
    \/ InitServices
    \/ TakeFile
    \/ ParseResumeEnter
    \/ ApiAttempt(AppReplies)
    \/ ParseResumeReturn
    \/ StoreCandidate
    \/ FinishProcessing
    \/ ShowCandidates
    \/ GenerateExcel

\* one click on "Process Resumes" with any of the upload lists, then the
\* page shown again
SpecResumes == InitResumes /\ [][NextResumes]_vars

---------------------------------------------------------------------------
(* Vocabulary of the properties                                            *)

Records == 1..Len(jobs_data)
CompanyOf(r) == Get(jobs_data[r], "Company", Str(""))
Labeled(r) == "Business Nature" \in DOMAIN jobs_data[r]
BusinessNature(r) == jobs_data[r]["Business Nature"]
Unknown == Str("Unknown")

\* the record has a company name: a text, not empty, not "N/A"
Named(r) == IsStr(CompanyOf(r)) /\ CompanyOf(r) # Str("") /\ CompanyOf(r) # Str("N/A")
KeyOf(r) == NormalizedKey[CompanyOf(r)]
RuleMatches(r) == IsStr(RegexCategory[CompanyOf(r)])
\* both records are handed to the same call of categorize_companies
SameBatch(a, b) == (a - 1) \div batch_size = (b - 1) \div batch_size
\* the first record of r's batch that has the normalized key of r
FirstOfKey(r) ==
    Min({a \in 1..r : Named(a) /\ SameBatch(a, r) /\ KeyOf(a) = KeyOf(r)})

\* categorize_jobs has built the classifier and no credential was found
NoCredential == pc # "idle" /\ api_key = ""

InClassifier == pc \in {"ai_enter", "ai_post", "ai_sleep", "ai_return"}

IsRateLimit(response) == response.kind = "http" /\ response.status = 429
\* a 200 response whose body is JSON with a text content that is not blank
HasLabel(response) ==
    /\ response.kind = "http" /\ response.status = 200 /\ response.json
    /\ IsStr(response.content)
    /\ \E k \in 1..Len(response.content.v) : ~IsSpace(Ch(response.content.v, k))
\* t is s without the whitespace at its two ends
TrimOf(t, s) ==
    \E a \in 0..Len(s) : \E b \in 0..Len(s) :
        /\ a + Len(t) + b = Len(s)
        /\ SubSeq(s, a + 1, a + Len(t)) = t
        /\ \A k \in 1..a : IsSpace(Ch(s, k))
        /\ \A k \in (Len(s) - b + 1)..Len(s) : IsSpace(Ch(s, k))
        /\ t # "" => ~IsSpace(Ch(t, 1)) /\ ~IsSpace(Ch(t, Len(t)))

---------------------------------------------------------------------------
(* Properties                                                              *)

\* C1: within one call of categorize_companies the remote classifier is
\* invoked at most once per normalized company name, and two records of the
\* batch that have a company name and the same normalized key carry the
\* same Business Nature once both are labeled.
C1_OneCallPerKey ==
    /\ \A p \in 1..Len(invoked) : \A q \in 1..Len(invoked) :
          p # q => invoked[p] # invoked[q]
    /\ \A a \in Records : \A b \in Records :
          ( /\ Named(a) /\ Named(b) /\ SameBatch(a, b) /\ KeyOf(a) = KeyOf(b)
            /\ Labeled(a) /\ Labeled(b) )
          => BusinessNature(a) = BusinessNature(b)

\* "Acme Ltd" and "ACME LIMITED" in one batch: one invocation, one label
C1_Witness ==
    /\ pc = "done"
    /\ \E a \in Records : \E b \in Records :
          /\ CompanyOf(a) = Str("Acme Ltd") /\ CompanyOf(b) = Str("ACME LIMITED")
          /\ BusinessNature(a) = Str("Consulting")
          /\ BusinessNature(b) = Str("Consulting")
    /\ Len(invoked) = 1

\* C2: over one run of categorize_jobs the remote classifier is invoked at
\* most once per normalized company name, wherever in the file it occurs.
C2_OneCallPerRun ==
    \A p \in 1..Len(invoked) : \A q \in 1..Len(invoked) :
        p # q => invoked[p][2] # invoked[q][2]

\* C3: one invocation of the remote classifier sends at most two HTTP
\* requests and sleeps at most once, whatever the responses.
C3_SingleRetry == requests <= 2 /\ backoffs <= 1

\* C4: a 429 on the first request is always retried after one sleep, and
\* when the retry returns 200 with a content that is not blank the
\* classifier returns that content, trimmed, and not "Unknown".
C4_RetryLabel ==
    pc = "ai_return" /\ responses # <<>> /\ IsRateLimit(responses[1])
    => /\ Len(responses) >= 2
       /\ Len(responses) = 2 => backoffs = 1
       /\ Len(responses) = 2 /\ HasLabel(responses[2])
          => /\ IsStr(ai_result)
             /\ TrimOf(ai_result.v, responses[2].content.v)
             /\ ai_result # Unknown

C4_Witness ==
    /\ pc = "ai_return"
    /\ Len(responses) = 2
    /\ IsRateLimit(responses[1])
    /\ responses[2].content = Str(" Consulting\n")
    /\ ai_result = Str("Consulting")
    /\ backoffs = 1

\* C5: the remote classifier returns a text in every case, never an
\* exception: "Unknown", with no request sent, when the credential is
\* missing or the company is empty or "N/A"; "Unknown" when the request
\* raises, the status is not OK, the body is malformed or the content is
\* blank; the trimmed content otherwise.
C5_NeverRaises ==
    pc = "ai_return" =>
    /\ IsStr(ai_result)
    /\ IF \/ api_key = ""
          \/ ai_args.company_name \in {Str(""), Str("N/A")}
       THEN ai_result = Unknown /\ responses = <<>>
       ELSE /\ responses # <<>>
            /\ LET last == responses[Len(responses)]
               IN  IF HasLabel(last)
                   THEN TrimOf(ai_result.v, last.content.v)
                   ELSE ai_result = Unknown

\* the request raised and the classifier returned "Unknown"
C5_Witness ==
    /\ pc = "ai_return"
    /\ responses # <<>>
    /\ responses[Len(responses)].kind = "raise"
    /\ ai_result = Unknown

\* C6: the remote classifier runs, and requests are sent, only for a record
\* that has a company name no rule matches and whose normalized key no
\* earlier record of the batch had, and only with a credential; the
\* invocations are exactly the records labeled on the remote branch.
C6_RemoteLast ==
    /\ (InClassifier \/ responses # <<>>)
       => /\ n \in Records
          /\ Named(n) /\ ~RuleMatches(n) /\ FirstOfKey(n) = n
          /\ api_key # ""
          /\ InClassifier => KeyOf(n) \notin DOMAIN company_categories
    /\ Len(invoked) = Cardinality({r \in Records : log[r].path = "remote"})
                        + (IF InClassifier THEN 1 ELSE 0)
    /\ \A r \in Records :
          /\ log[r].path = "cache" => FirstOfKey(r) < r
          /\ log[r].path = "regex" => RuleMatches(r)

\* a request is about to be sent for the record after a rule-matched one
C6_Witness ==
    /\ pc = "ai_post"
    /\ n = 2
    /\ log[1].path = "regex"

\* C7, as claimed: without a credential no request is sent and every
\* labeled record whose name no rule matches is "Unknown".
C7_UnmatchedUnknown ==
    NoCredential =>
    /\ invoked = <<>> /\ responses = <<>>
    /\ \A r \in Records :
          Labeled(r) /\ ~RuleMatches(r) => BusinessNature(r) = Unknown

ExampleBatch == <<Str("Queensland Health"), Str("Unknown Widgets Co"), Str("N/A")>>

\* C7, amended: without a credential no request is sent and no record is
\* labeled on the remote branch; a labeled record whose name no rule matches
\* is "Unknown", unless the first record of the batch with its normalized
\* key matched a rule, whose category it then carries; the example batch
\* ends with Healthcare Services, Unknown, Unknown.
C7_UnmatchedUnknownOrCached ==
    NoCredential =>
    /\ invoked = <<>> /\ responses = <<>>
    /\ \A r \in Records : log[r].path # "remote"
    /\ \A r \in Records :
          Labeled(r) /\ ~RuleMatches(r)
          => BusinessNature(r) =
                IF Named(r) /\ RuleMatches(FirstOfKey(r))
                THEN RegexCategory[CompanyOf(FirstOfKey(r))]
                ELSE Unknown
    /\ ( /\ pc = "done"
         /\ [r \in Records |-> CompanyOf(r)] = ExampleBatch )
       => [r \in Records |-> BusinessNature(r)]
             = <<Str("Healthcare Services"), Unknown, Unknown>>

C7_Witness ==
    /\ pc = "done"
    /\ api_key = ""
    /\ [r \in Records |-> CompanyOf(r)] = ExampleBatch
    /\ [r \in Records |-> BusinessNature(r)]
          = <<Str("Healthcare Services"), Unknown, Unknown>>

\* C8, as claimed: without a credential every labeled record whose raw name
\* matches a topic carries that topic's category.
C8_MatchedGetsTopic ==
    NoCredential =>
    \A r \in Records :
        Labeled(r) /\ RuleMatches(r)
        => BusinessNature(r) = RegexCategory[CompanyOf(r)]

\* C8, amended: without a credential a labeled record whose raw name matches
\* a topic carries that topic's category when no earlier record of the batch
\* has its normalized key, and the Business Nature of the first such record
\* otherwise.
C8_MatchedGetsTopicOrCached ==
    NoCredential =>
    \A r \in Records :
        Labeled(r) /\ RuleMatches(r)
        => BusinessNature(r) =
              IF FirstOfKey(r) = r
              THEN RegexCategory[CompanyOf(r)]
              ELSE BusinessNature(FirstOfKey(r))

\* a rule-matched record after an unmatched one, without a credential
C8_Witness ==
    /\ pc = "done"
    /\ api_key = ""
    /\ Len(jobs_data) = 2
    /\ CompanyOf(1) = Str("Acme Ltd") /\ BusinessNature(1) = Unknown
    /\ CompanyOf(2) = Str("Queensland Health")
    /\ BusinessNature(2) = Str("Healthcare Services")

\* C9: no exception leaves categorize_companies, and when the run ends every
\* record has a Business Nature.
C9_EveryRecordLabeled ==
    /\ raised = ""
    /\ pc \in {"done", "failed"} => \A r \in Records : Labeled(r)

\* C10: the blocking steps taken for one record are at most two bounded
\* requests, the one 429 backoff and the one courtesy delay.
C10_BoundedBlocking ==
    n \in Records => requests + backoffs + log[n].delays <= 4

\* every run of categorize_jobs ends
Terminates == <>(pc \in {"done", "failed"})

\* the orchestrator is about to process a record whose normalized key is in
\* the cache
AtCachedRecord ==
    /\ InRecord
    /\ Named(n)
    /\ KeyOf(n) \in DOMAIN company_categories

\* what a cache hit does apart from the counters: the cached label is copied
\* to the record, the next record is up, the branch taken is the cache
\* branch (the rule matcher was not run), no request is sent, the classifier
\* is not invoked, no delay is taken and the cache is unchanged
CacheHitCopies ==
    /\ jobs_data' = [jobs_data EXCEPT ![n] =
                        ("Business Nature" :> company_categories[KeyOf(n)]) @@ @]
    /\ n' = n + 1 /\ pc' = "record"
    /\ log'[n] = [path |-> "cache", delays |-> 0]
    /\ UNCHANGED <<company_categories, responses, backoffs, invoked,
                   ai_args, ai_result, depth>>

\* C11 as stated: when the normalized key of a record is in the cache the
\* orchestrator copies the cached label to the record and does nothing
\* else: no rule matcher, no request, no delay, the cache unchanged and no
\* counter incremented (regex_matches, api_calls, processed).
C11_CacheHitFrame ==
    [][AtCachedRecord =>
          CacheHitCopies /\ UNCHANGED <<regex_matches, api_calls, processed>>]_vars

\* C11 amended: as above, but the tally of processed records, which is
\* incremented before the cache is looked up, goes up by one; the two
\* reported counters stay.
C11_CacheHitFrameProcessed ==
    [][AtCachedRecord =>
          /\ CacheHitCopies
          /\ UNCHANGED <<regex_matches, api_calls>>
          /\ processed' = processed + 1]_vars

\* a record was labeled from the cache, after a record that was labeled by
\* a rule
C11_Witness ==
    \E r \in Records :
        /\ log[r].path = "cache"
        /\ n = r + 1
        /\ regex_matches = 1
        /\ processed >= 2

\* the category labels, in the order in which the topics are to be checked
TopicOrder == <<"Recruitment & Staffing", "Healthcare Services",
                "Financial Services", "Education & Training",
                "Construction & Engineering", "Retail & E-commerce",
                "Technology & Software", "Manufacturing">>

\* a pattern of the topic labeled TopicOrder[k] matches somewhere in name
TopicHits(k, name) ==
    \E t \in 1..Len(Topics) :
        Topics[t].label = TopicOrder[k] /\ TopicMatches(t, name)

\* C12: the rule matcher returns, for a name, the label of the first topic
\* in the order recruitment, healthcare, finance, education, construction,
\* retail, technology, manufacturing of which some pattern matches anywhere
\* in the name; "Tech Talent Solutions" gets "Recruitment & Staffing"; a
\* name no topic matches gets the no-match value, which is none of the
\* labels.
C12_FirstTopicWins ==
    (call.category # NotCalled /\ IsStr(call.company_name)) =>
        LET hits == {k \in 1..Len(TopicOrder) :
                        TopicHits(k, call.company_name.v)}
        IN  /\ hits # {} => call.category = Str(TopicOrder[Min(hits)])
            /\ hits = {} =>
                  /\ call.category = None
                  /\ \A k \in 1..Len(TopicOrder) :
                        call.category # Str(TopicOrder[k])
            /\ call.company_name = Str("Tech Talent Solutions") =>
                  call.category = Str("Recruitment & Staffing")

\* the rule matcher has labeled a name that patterns of two topics match,
\* the later-listed topic's word coming first in the name
C12_Witness ==
    /\ call.company_name = Str("Tech Talent Solutions")
    /\ TopicHits(1, "Tech Talent Solutions")
    /\ TopicHits(7, "Tech Talent Solutions")
    /\ call.category = Str("Recruitment & Staffing")

\* the normalizer was called on a company name: a text, not empty, not "N/A"
NormalizedAName ==
    /\ call.normalized # NotCalled
    /\ IsStr(call.company_name)
    /\ call.company_name # Str("") /\ call.company_name # Str("N/A")

\* C13: the normalizer is idempotent: normalizing the key it returned for a
\* name gives that key again, also for a name that ends in two or more
\* corporate-suffix words.
C13_Idempotent ==
    call.renormalized # NotCalled => call.renormalized = call.normalized

\* C14: the normalizer never fails, whatever it is given, and returns an
\* empty, absent or "N/A" input unchanged (as a function of its argument it
\* returns the same key for the same input).
C14_Total ==
    call.normalized # NotCalled =>
        /\ ~IsRaised(call.normalized)
        /\ call.company_name \in {Str(""), None, Str("N/A")} =>
              call.normalized = call.company_name

\* the word w stands in s
HasWord(s, w) ==
    \E k \in 1..Len(s) :
        Boundary(s, k) /\ LitAt(s, w, k) /\ Boundary(s, k + Len(w))

\* the word "the", followed by whitespace, stands in s after another word
InteriorThe(s) ==
    \E k \in 2..Len(s) :
        /\ \E j \in 1..(k - 1) : IsWord(Ch(s, j))
        /\ Boundary(s, k)
        /\ k + 3 <= Len(s)
        /\ lower(SubSeq(s, k, k + 2)) = "the"
        /\ IsSpace(Ch(s, k + 3))

\* C15: the normalizer removes "the" only where it leads the name: a "the"
\* in the middle of a name is still a word of the key.
C15_InteriorTheKept ==
    (NormalizedAName /\ InteriorThe(call.company_name.v)) =>
        HasWord(call.normalized.v, "the")

\* s ends with a word or word pair of the corporate-suffix list
EndsWithSuffix(s) ==
    \E k \in 1..Len(s) : \E a \in 1..Len(Suffixes) :
        Boundary(s, k) /\ SuffixAt(s, Suffixes[a], k)

\* C16: the key of a company name is lowercase, has no whitespace at its
\* ends and no two spaces in a row, and does not end with a corporate
\* suffix; "Acme Pty Ltd" gives "acme", "The Smith Group" gives "smith".
C16_KeyShape ==
    NormalizedAName =>
        LET k16 == call.normalized.v
        IN  /\ \A p \in 1..Len(k16) : lower_char(Ch(k16, p)) = Ch(k16, p)
            /\ k16 # "" => ~IsSpace(Ch(k16, 1)) /\ ~IsSpace(Ch(k16, Len(k16)))
            /\ \A p \in 1..(Len(k16) - 1) :
                  ~(IsSpace(Ch(k16, p)) /\ IsSpace(Ch(k16, p + 1)))
            /\ ~EndsWithSuffix(k16)
            /\ call.company_name = Str("Acme Pty Ltd") => k16 = "acme"
            /\ call.company_name = Str("The Smith Group") => k16 = "smith"

\* the records of the batch that categorize_companies is working on
Batch == (i + 1)..BatchEnd

\* C17: categorize_companies takes the records in input order, one at a
\* time, and returns the sequence it was given: no step changes the number
\* of records or a field other than Business Nature; a step that changes a
\* record changes the record at hand only, all records of the batch before
\* it labeled and none after it; and the batch is returned when the last
\* record is done, as the records of the input in their order.
C17_InOrderInPlace ==
    [][/\ Len(jobs_data') = Len(jobs_data)
       /\ \A r \in Records :
             /\ DOMAIN jobs_data'[r] \subseteq
                   DOMAIN jobs_data[r] \cup {"Business Nature"}
             /\ \A f \in DOMAIN jobs_data[r] \ {"Business Nature"} :
                   jobs_data'[r][f] = jobs_data[r][f]
       /\ jobs_data' # jobs_data =>
             /\ n \in Batch
             /\ \A r \in Records \ {n} : jobs_data'[r] = jobs_data[r]
             /\ \A r \in Batch : (r < n => Labeled(r)) /\ (r > n => ~Labeled(r))
       /\ categorized_jobs' # categorized_jobs /\ pc = "record" =>
             /\ n = BatchEnd + 1
             /\ \A r \in Batch : Labeled(r)
             /\ Len(categorized_jobs') = BatchEnd
             /\ \A r \in Batch : categorized_jobs'[r] = jobs_data'[r]
      ]_vars

\* a batch of several records with different labels has been returned
C17_Witness ==
    /\ pc = "done"
    /\ Len(jobs_data) >= 2
    /\ session.job_data = jobs_data
    /\ \E a, b \in Records : BusinessNature(a) # BusinessNature(b)

\* the orchestrator is about to process a record whose Company is empty,
\* missing or "N/A"
AtEmptyRecord ==
    /\ InRecord
    /\ CompanyOf(n) \in {Str(""), Str("N/A")}

\* C18: a record whose Company is empty, missing or "N/A" gets the
\* Business Nature "Unknown" on the branch that runs neither the
\* normalizer nor the rule matcher nor the remote classifier: no request,
\* no invocation, no delay, no counter of handled records, and the cache as
\* it was.
C18_EmptyShortCircuit ==
    [][AtEmptyRecord =>
          /\ jobs_data' = [jobs_data EXCEPT ![n] =
                              ("Business Nature" :> Unknown) @@ @]
          /\ n' = n + 1 /\ pc' = "record"
          /\ log'[n] = [path |-> "empty", delays |-> 0]
          /\ UNCHANGED <<company_categories, processed, regex_matches,
                         api_calls, responses, backoffs, invoked, ai_args,
                         ai_result, depth>>]_vars

\* an "N/A" record and an empty one have been short-circuited, the cache
\* holding the key of an earlier record only
C18_Witness ==
    \E a, b \in Records :
        /\ CompanyOf(a) = Str("N/A") /\ CompanyOf(b) = Str("")
        /\ a < n /\ b < n
        /\ log[a].path = "empty" /\ log[b].path = "empty"
        /\ BusinessNature(a) = Unknown /\ BusinessNature(b) = Unknown
        /\ DOMAIN company_categories = {Str("acme")}

\* C19: once the orchestrator has labeled a record that has a company name,
\* the cache holds an entry under the record's normalized key and the
\* entry is the record's Business Nature, whichever branch labeled it; and
\* no step of the batch removes or changes an entry of the cache.
C19_CacheHoldsLabel ==
    [][/\ \A r \in Records :
             (Named(r) /\ Labeled(r))' =>
                 /\ KeyOf(r) \in DOMAIN company_categories'
                 /\ company_categories'[KeyOf(r)] = BusinessNature(r)'
       /\ \A k \in DOMAIN company_categories :
             /\ k \in DOMAIN company_categories'
             /\ company_categories'[k] = company_categories[k]
      ]_vars

\* a rule, the remote classifier answering "Unknown" and the cache have
\* each labeled a record of one batch
C19_Witness ==
    /\ Len(jobs_data) = 3
    /\ n = 4
    /\ log[1].path = "regex" /\ log[2].path = "remote" /\ log[3].path = "cache"
    /\ BusinessNature(2) = Unknown
    /\ Cardinality(DOMAIN company_categories) = 2

\* the records the orchestrator has finished
Finished == {r \in Records : log[r].path # "" /\ (r < n \/ pc \in {"done", "batch_loop"})}

\* C20: the 1.2 s delay is taken exactly once after each invocation of the
\* remote classifier, before the next record is taken up, and on no other
\* branch: a finished record has one delay if the remote branch labeled it
\* and none otherwise, and between two records there have been as many
\* delays as invocations.
C20_OneDelayPerRemote ==
    /\ \A r \in Finished :
          log[r].delays = (IF log[r].path = "remote" THEN 1 ELSE 0)
    /\ \A r \in Records : log[r].path # "remote" => log[r].delays = 0
    /\ pc \in {"record", "batch_loop", "done"} =>
          Cardinality({r \in Records : log[r].delays = 1}) = Len(invoked)

\* the delay has been taken after a remote call that came to "Unknown" and
\* not after a rule match or a cache hit
C20_Witness ==
    /\ Len(jobs_data) = 3
    /\ pc = "done"
    /\ log[1] = [path |-> "remote", delays |-> 1]
    /\ BusinessNature(1) = Unknown
    /\ log[2] = [path |-> "cache", delays |-> 0]
    /\ log[3] = [path |-> "regex", delays |-> 0]

\* the records handed to the k-th call of categorize_companies
BatchOf(k) == {r \in Records : (r - 1) \div batch_size = k - 1}

\* C21: when a call of categorize_companies completes it reports the
\* number of records it was given, the number of them labeled by the rule
\* matcher and the number of invocations of the remote classifier; the two
\* last together never exceed the first and, when a credential is
\* configured, are as many as the entries of the cache.
C21_ReportedCounts ==
    /\ \A k \in 1..Len(reported) :
          /\ reported[k].total_companies = Cardinality(BatchOf(k))
          /\ reported[k].regex_matches =
                Cardinality({r \in BatchOf(k) : log[r].path = "regex"})
          /\ reported[k].api_calls =
                Cardinality({c \in 1..Len(invoked) :
                                invoked[c][1] = (k - 1) * batch_size})
          /\ reported[k].regex_matches + reported[k].api_calls
                <= reported[k].total_companies
    /\ (pc \in {"batch_loop", "done"} /\ reported # <<>> /\ api_key # "") =>
          reported[Len(reported)].regex_matches
              + reported[Len(reported)].api_calls
            = Cardinality(DOMAIN company_categories)

\* a batch with a rule match, a remote call, a cache hit and an empty
\* company has been reported
C21_Witness ==
    /\ pc = "done"
    /\ api_key # ""
    /\ reported = <<[total_companies |-> 3, regex_matches |-> 1, api_calls |-> 1]>>
    /\ \E r \in Records : log[r].path \in {"cache", "empty"}

\* C22: export_jobs writes one row for each record, in input order, under
\* the columns Job Title, Company, Business Nature, Location, Salary, Job
\* URL in this order; a field the record has as a text is written as it is
\* and a field it lacks as the empty string; for an empty sequence it
\* raises and returns no sheet.
C22_ExportJobsRows ==
    export.sheet # NotCalled =>
        IF export.jobs_data = <<>>
        THEN IsRaised(export.sheet)
        ELSE /\ export.sheet.type = "xlsx"
             /\ export.sheet.header =
                   <<"Job Title", "Company", "Business Nature", "Location",
                     "Salary", "Job URL">>
             /\ Len(export.sheet.rows) = Len(export.jobs_data)
             /\ \A r \in 1..Len(export.jobs_data) :
                   /\ Len(export.sheet.rows[r]) = Len(export.sheet.header)
                   /\ \A c \in 1..Len(export.sheet.header) :
                         LET f == export.sheet.header[c]
                             rec == export.jobs_data[r]
                         IN  /\ f \notin DOMAIN rec =>
                                   export.sheet.rows[r][c] = Str("")
                             /\ (f \in DOMAIN rec /\ IsStr(rec[f])) =>
                                   export.sheet.rows[r][c] = rec[f]

\* two different records, the second lacking its Business Nature, have
\* been written
C22_Witness ==
    /\ Len(export.jobs_data) = 2
    /\ export.sheet # NotCalled
    /\ DOMAIN export.jobs_data[1] = {"Job Title", "Company", "Location",
                                     "Salary", "Job URL", "Business Nature"}
    /\ export.jobs_data[1]["Company"] = Str("Queensland Health")
    /\ export.sheet.rows[1][3] = Str("Healthcare Services")
    /\ DOMAIN export.jobs_data[2] = {"Job Title", "Company", "Location",
                                     "Salary", "Job URL"}
    /\ export.sheet.rows[2][2] = Str("Acme Ltd")
    /\ export.sheet.rows[2][3] = Str("")

\* categorize_jobs has returned
Returned == pc \in {"done", "failed"}

\* C23: when categorize_jobs has returned, by its end or by its except
\* clause, categorization_in_progress is False; categorization_complete is
\* True only when job_data holds the records of the input, each labeled, in
\* input order; and after an exception job_data is empty and
\* categorization_complete is False.
C23_SessionFlags ==
    /\ Returned => ~session.categorization_in_progress
    /\ session.categorization_complete =>
          /\ Len(session.job_data) = Len(jobs_data)
          /\ \A r \in Records :
                Labeled(r) /\ session.job_data[r] = jobs_data[r]
    /\ pc = "failed" =>
          /\ session.job_data = <<>>
          /\ ~session.categorization_complete

\* an exception has ended a run that had labeled a record already
C23_Witness ==
    /\ pc = "failed"
    /\ raised = "AttributeError"
    /\ n >= 2
    /\ Labeled(1)
    /\ session.job_data = <<>>
    /\ ~session.categorization_in_progress

\* C24: extract_jobs requests at most max_pages pages, whatever the pages
\* link to, and returns; when it has returned, by whichever path,
\* extraction_in_progress is False.
C24_ExtractTerminates ==
    /\ [](/\ fetches <= max_pages
          /\ ex_pc = "returned" => ~extraction.extraction_in_progress)
    /\ <>(ex_pc = "returned")

\* every page linked to a next page, the last one to the page before it,
\* and extraction stopped at the limit
C24_Witness ==
    /\ ex_pc = "returned"
    /\ fetches = max_pages
    /\ page_count = max_pages + 1
    /\ current_url = url
    /\ ~extraction.extraction_in_progress

\* C25: the number of pages in the closing line "Found N jobs across P
\* pages" is the number of pages extract_jobs fetched and took jobs from,
\* however the page loop ended.
C25_PagesReported ==
    status_text # None => status_text.pages = extracted

\* the calls and the sleeps of the current _make_api_call_with_retry
Calls == SelectSeq(api_trace, LAMBDA ev : ev.op = "call")
Sleeps == SelectSeq(api_trace, LAMBDA ev : ev.op = "sleep")
\* the call yielded a content that is not empty
Yielded(ev) == ev.op = "call" /\ ~IsRaised(ev.value) /\ Truthy(ev.value)
RetryReturned == api_response # NotCalled

\* C26: _make_api_call_with_retry makes at most max_retries API calls
\* whatever the calls come to; once it has returned, it has returned the
\* content of the first call that yielded a content that is not empty, that
\* call being the last one made, or None when no call yielded one, and
\* then all max_retries calls have been made; it returns a value, never an
\* exception.
C26_RetryBounded ==
    /\ Len(Calls) <= max_retries
    /\ \A k \in 1..Len(Calls) : Yielded(Calls[k]) => k = Len(Calls)
    /\ RetryReturned =>
          /\ ~IsRaised(api_response)
          /\ IF \E k \in 1..Len(Calls) : Yielded(Calls[k])
             THEN api_response = Calls[Len(Calls)].value
             ELSE api_response = None /\ Len(Calls) = max_retries

\* three calls were made and only the third yielded a content
C26_Witness ==
    /\ RetryReturned
    /\ Len(Calls) = max_retries
    /\ IsRaised(Calls[1].value)
    /\ Calls[2].value = Str("")
    /\ api_response = Str(FullBody)

\* C27: every call of _make_api_call_with_retry after the first comes
\* right after a sleep of 2^attempt seconds, attempt being the pass that
\* did not succeed (1 s before the second call, 2 s before the third),
\* whether that pass ended in an exception or in an empty content, and
\* no sleep follows the last call.
C27_BackoffBeforeRetry ==
    /\ \A p \in 2..Len(api_trace) :
          api_trace[p].op = "call" =>
              /\ api_trace[p - 1].op = "sleep"
              /\ api_trace[p - 1].attempt = api_trace[p].attempt - 1
              /\ api_trace[p - 1].value = 2 ^ api_trace[p - 1].attempt
    /\ RetryReturned => api_trace[Len(api_trace)].op = "call"

ParseReturned == rp_pc = "returned"
\* the text is empty or holds whitespace only
BlankText == ~Truthy(resume_text) \/ strip(resume_text.v) = ""
\* the API gave no content, or a content that is no JSON object
ParseFailed ==
    \/ ~Truthy(api_response)
    \/ ~IsStr(api_response)
    \/ json_loads(json_text(unfenced(api_response.v))).type # "dict"

\* C28: whatever the resume text and whatever the API calls come to,
\* parse_resume returns a record of exactly the eight fields, each a text;
\* all eight are empty when the API gave an error, no content after the
\* retries, or a content that is not a JSON object; for an empty or
\* whitespace-only text it returns the empty record and no API call is
\* made.
C28_ParseResumeTotal ==
    ParseReturned =>
        /\ DOMAIN parsed_data = FieldNames
        /\ \A f \in FieldNames : IsStr(parsed_data[f])
        /\ BlankText \/ ParseFailed =>
               \A f \in FieldNames : parsed_data[f] = Str("")
        /\ BlankText => api_trace = <<>> /\ api_response = NotCalled

\* parse_resume has returned after a timeout, an empty content and a
\* content that is not JSON
C28_Witness ==
    /\ ParseReturned
    /\ Len(Calls) = max_retries
    /\ IsRaised(Calls[1].value)
    /\ Calls[2].value = None
    /\ api_response = Str("I could not read this resume.")
    /\ parsed_data = [f \in FieldNames |-> Str("")]

ProcessReturned == app_pc = "returned"
\* the services were created and the loop has ended
LoopDone == ProcessReturned /\ file_no = Len(uploaded_files)
Candidates == state.processed_candidates

\* C29: a file that is unsupported, has no text or whose pass raises is
\* skipped and the loop goes on to the files after it; when the loop has
\* ended every file has been taken, and processed_candidates holds one
\* entry for each file whose pass went through parse_resume, in upload
\* order, with the file's name under filename; whenever process_resumes
\* has returned, service initialisation failure included,
\* processing_in_progress is False.
C29_PerFileIsolation ==
    /\ ProcessReturned => ~state.processing_in_progress
    /\ LoopDone =>
          /\ Len(file_log) = Len(uploaded_files)
          /\ \A k \in 1..Len(file_log) :
                 file_log[k].name = uploaded_files[k].name
          /\ LET parsed == SelectSeq(file_log, LAMBDA e : e.end = "parsed")
             IN  /\ Len(Candidates) = Len(parsed)
                 /\ \A k \in 1..Len(parsed) :
                        Candidates[k]["filename"] = Str(parsed[k].name)
          /\ \A k \in 1..Len(file_log) :
                 file_log[k].end = "parsed" =>
                     /\ file_extension(uploaded_files[k].name) \in {"pdf", "docx"}
                     /\ strip(uploaded_files[k].text) # ""

\* an unsupported file came first and was skipped, the file after it was
\* parsed and stored
C29_Witness ==
    /\ LoopDone
    /\ state.processing_complete
    /\ Len(file_log) = 2
    /\ file_log[1] = [name |-> "notes.txt", end |-> "unsupported"]
    /\ file_log[2] = [name |-> "Bo Tan.docx", end |-> "parsed"]
    /\ Len(Candidates) = 1
    /\ Candidates[1]["filename"] = Str("Bo Tan.docx")

\* the columns First Name, Last Name, Current Job Title, Current Company,
\* Previous Job Title and Previous Company, as positions of CandidateColumns
\* and of Fields
NameColumns == {1, 2, 5, 6, 7, 8}
\* the cells of the rows are the fields parse_resume returned
AsParsed(rows) ==
    \A k \in 1..Len(rows) : \A c \in NameColumns :
        rows[k][c] = Candidates[k][Fields[c]]

\* C30: for every candidate of process_resumes, the cells of the table
\* shown and of the sheet exported in the columns First Name, Last Name,
\* Current Job Title, Current Company, Previous Job Title and Previous
\* Company hold the values parse_resume returned in the fields first_name,
\* last_name, current_job_title, current_company, previous_job_title and
\* previous_company.
C30_ShownAsParsed ==
    /\ display_data # NotCalled =>
          /\ \A c \in NameColumns :
                 display_data.columns[c] = CandidateColumns[c][1]
          /\ AsParsed(display_data.values)
    /\ workbook # NotCalled =>
          /\ \A c \in NameColumns : workbook.header[c] = CandidateColumns[c][1]
          /\ AsParsed(workbook.rows)
====
